---- MODULE Spec2Model ----
(***************************************************************************)
(* A model of wrappers/python/simtk/openmm/app/internal/amber_file_parser  *)
(* (PrmtopLoader, readAmberSystem).                                        *)
(*                                                                         *)
(* Representation.  A section of the prmtop file is the sequence of its    *)
(* tokens.  An integer token is held as the integer it denotes; a          *)
(* floating-point token is held in thousandths (1.5 is 1500), so float()   *)
(* and int() read the number the token text denotes.  Real numbers the     *)
(* code computes with roots, pi or the charge constant are held as records *)
(* [k, n, d] that name the formula (see Rat, Root6Half, Rad2Deg).          *)
(* The module is Python 2 (print statements): "/" on ints is floor         *)
(* division, which is \div below.                                          *)
(***************************************************************************)
EXTENDS Integers, Sequences, FiniteSets, TLC

VARIABLES
    raw,                \* PrmtopLoader._raw_data: section name -> tokens
    cache,              \* the memo attributes of the loader (_massList, ...)
    residuePointerDict, \* PrmtopLoader.residuePointerDict
    called,             \* per accessor: how often it has been called
    runs,               \* per accessor: how often its derivation has run
    raised,             \* accessors one of whose calls has raised
    last,               \* outcome of the most recent accessor call
    pc,                 \* readAmberSystem: position in the function
    args,               \* readAmberSystem: its arguments
    system,             \* readAmberSystem: the mm.System being built
    forces,             \* readAmberSystem: the force objects being built
    excludedAtomPairs,  \* readAmberSystem: local set of 1-4 pairs
    error,              \* readAmberSystem: the exception it raised, if any
    readers,            \* concurrent readers of one loader
    load,               \* PrmtopLoader.__init__: the pass over the lines of a file
    crd                 \* readAmberCoordinates: the pass over a coordinate file

vars == <<raw, cache, residuePointerDict, called, runs, raised, last,
          pc, args, system, forces, excludedAtomPairs, error, readers, load, crd>>

loaderVars == <<raw, cache, residuePointerDict, called, runs, raised, last>>
systemVars == <<pc, args, system, forces, excludedAtomPairs, error>>

-----------------------------------------------------------------------------
(* Bounds of the model. *)

MaxAtoms == 3       \* atoms of a modelled file
MaxRecs == 2        \* records in one bond / angle / dihedral section
MaxExcl == 2        \* largest NUMBER_EXCLUDED_ATOMS entry
MaxCalls == 3       \* accessor calls made on one loader
MaxLine == 4        \* characters of a data line, without its newline
MaxWidth == 2       \* field width of a %FORMAT tag

-----------------------------------------------------------------------------
(* Python helpers. *)

Min(a, b) == IF a <= b THEN a ELSE b
\* A variant of Abs that keeps the sign.
AbsSigned(a) == a

Abs(a) == IF a < 0 THEN -a ELSE a

\* list[i] for a 0-based, possibly negative, Python index.
InRange(s, i) == -Len(s) <= i /\ i < Len(s)
At(s, i) == IF i >= 0 THEN s[i + 1] ELSE s[Len(s) + i + 1]

\* list[i0:i1] for 0 <= i0 <= i1 (a slice never raises; it is cut at the end).
Slice(s, i0, i1) == [k \in 1..(Min(i1, Len(s)) - Min(i0, Len(s))) |-> s[Min(i0, Len(s)) + k]]

\* The smallest i in 0..n-1 with Bad(i), or n when there is none: the
\* iteration at which a for loop over range(n) raises.
FirstBad(n, Bad(_)) ==
    IF \E i \in 0..(n - 1) : Bad(i)
    THEN CHOOSE i \in 0..(n - 1) : Bad(i) /\ \A j \in 0..(i - 1) : ~Bad(j)
    ELSE n

\* Number of iterations of range(0, len, step).
RangeCount(len, step) == (len + step - 1) \div step

\* An optional argument: None, or a value.
None == [some |-> FALSE, v |-> 0]
Some(x) == [some |-> TRUE, v |-> x]

NoErr == "none"
IndexError == "IndexError"
KeyError == "KeyError"
TypeError == "TypeError"

\* Real values.
Rat(n, d) == [k |-> "rat", n |-> n, d |-> d]              \* n / d
Root6Half(n, d) == [k |-> "root6half", n |-> n, d |-> d]  \* ((n/d)**(1/6.0))/2.0
Rad2Deg(n) == [k |-> "rad2deg", n |-> n, d |-> 1000]      \* (n/1000)*180/math.pi

-----------------------------------------------------------------------------
(* Pointer table. *)

POINTER_LABEL_LIST ==
    << "NATOM",  "NTYPES", "NBONH",  "MBONA",  "NTHETH", "MTHETA",
       "NPHIH",  "MPHIA",  "NHPARM", "NPARM",  "NEXT",   "NRES",
       "NBONA",  "NTHETA", "NPHIA",  "NUMBND", "NUMANG", "NPTRA",
       "NATYP",  "NPHB",   "IFPERT", "NBPER",  "NGPER",  "NDPER",
       "MBPER",  "MGPER",  "MDPER",  "IFBOX",  "NMXRS",  "IFCAP" >>

\* POINTER_LABEL_LIST.index(pointerLabel), 0-based.
PointerIndex(pointerLabel) ==
    (CHOOSE i \in 1..Len(POINTER_LABEL_LIST) : POINTER_LABEL_LIST[i] = pointerLabel) - 1

_getPointerValue(pointerLabel) == At(raw.POINTERS, PointerIndex(pointerLabel))

getNumAtoms == _getPointerValue("NATOM")
getNumTypes == _getPointerValue("NTYPES")
getIfBox == _getPointerValue("IFBOX")
getIfCap == _getPointerValue("IFCAP")
getIfPert == _getPointerValue("IFPERT")

getAtomTypes == raw.AMBER_ATOM_TYPE
getAtomType(iAtom) == At(getAtomTypes, iAtom)

-----------------------------------------------------------------------------
(* Memo attributes.  An attribute that has not been assigned is           *)
(* [set |-> FALSE]; reading it raises AttributeError.                     *)

Unset == [set |-> FALSE, val |-> <<>>]
Stored(v) == [set |-> TRUE, val |-> v]

Accessors ==
    { "getMasses", "getCharges", "_getAtomTypeIndexes", "getNonbondTerms",
      "getBondsWithH", "getBondsNoH", "getAngles", "getDihedrals",
      "get14Interactions", "getExcludedAtoms", "getGBSA_OBC" }

EmptyCache ==
    [ _massList |-> Unset, _chargeList |-> Unset, _atomTypeIndexes |-> Unset,
      _nonbondTerms |-> Unset, _bondListWithH |-> Unset, _bondListNoH |-> Unset,
      _angleList |-> Unset, _dihedralList |-> Unset, _excludedAtoms |-> Unset,
      _gbsa_obcList |-> Unset ]

\* A variant of HasAttr in which the memo attribute is never found.
HasAttrNever(c, attr) == FALSE

\* try: return self.<attr> / except AttributeError: pass
HasAttr(c, attr) == c[attr].set

\* The outcome of a call: the attributes afterwards, whether it returned or
\* raised, what it returned, and the accessors whose derivation ran.
Returned(c, v, ran) == [cache |-> c, out |-> "returned", err |-> NoErr, val |-> v, ran |-> ran]
Raised(c, e, ran) == [cache |-> c, out |-> "raised", err |-> e, val |-> <<>>, ran |-> ran]

\* The accessors that a call of acc with outcome r left by an exception: acc
\* itself and the nested call the exception came from.
Failed(acc, r, nested) ==
    IF r.out = "returned" THEN {}
    ELSE {acc} \cup {a \in DOMAIN nested : nested[a].out = "raised"}

\* A units.Quantity wrapping a list.
Quantity(v, unit) == [unit |-> unit, value |-> v]
NoUnit == "list"

-----------------------------------------------------------------------------
(* Per-atom collections. *)

ChargeFactor == 182223      \* 18.2223, in ten-thousandths

getMasses(c) ==
    IF HasAttr(c, "_massList") THEN Returned(c, c._massList.val, {})
    ELSE LET raw_masses == raw.MASS
             n == getNumAtoms
             stop == FirstBad(n, LAMBDA ii : ~InRange(raw_masses, ii))
             built == [ii \in 1..stop |-> raw_masses[ii]]
             done == Quantity(built, "amu")
         IN  IF stop < n
             THEN Raised([c EXCEPT !._massList = Stored(Quantity(built, NoUnit))],
                         IndexError, {"getMasses"})
             ELSE Returned([c EXCEPT !._massList = Stored(done)], done, {"getMasses"})

getCharges(c) ==
    IF HasAttr(c, "_chargeList") THEN Returned(c, c._chargeList.val, {})
    ELSE LET raw_charges == raw.CHARGE
             n == getNumAtoms
             stop == FirstBad(n, LAMBDA ii : ~InRange(raw_charges, ii))
             built == [ii \in 1..stop |-> Rat(raw_charges[ii] * 10, ChargeFactor)]
             done == Quantity(built, "elementary_charge")
         IN  IF stop < n
             THEN Raised([c EXCEPT !._chargeList = Stored(Quantity(built, NoUnit))],
                         IndexError, {"getCharges"})
             ELSE Returned([c EXCEPT !._chargeList = Stored(done)], done, {"getCharges"})

_getAtomTypeIndexes(c) ==
    IF HasAttr(c, "_atomTypeIndexes") THEN Returned(c, c._atomTypeIndexes.val, {})
    ELSE LET built == raw.ATOM_TYPE_INDEX
         IN  Returned([c EXCEPT !._atomTypeIndexes = Stored(built)], built,
                      {"_getAtomTypeIndexes"})

-----------------------------------------------------------------------------
(* Lennard-Jones terms. *)

TenTwelve == "10-12 interactions are not supported"

\* A variant of LennardJones whose fallback radius is 0.0.
LennardJonesZeroRadius(acoef, bcoef) ==
    IF bcoef = 0 \/ acoef = 0
    THEN <<Rat(0, 2), Rat(0, 1)>>
    ELSE <<Root6Half(2 * acoef, bcoef), Rat(bcoef * bcoef, 4000 * acoef)>>

\* rMin/2.0 and epsilon from a coefficient row; both divisions sit in one
\* try block, so a zero divisor in either gives rMin = 1.0, epsilon = 0.0.
LennardJones(acoef, bcoef) ==
    IF bcoef = 0 \/ acoef = 0
    THEN <<Rat(1, 2), Rat(0, 1)>>
    ELSE <<Root6Half(2 * acoef, bcoef), Rat(bcoef * bcoef, 4000 * acoef)>>

NonbondIndex(types, iAtom) == (getNumTypes + 1) * (At(types, iAtom) - 1)

NonbondErr(types, iAtom) ==
    IF ~InRange(types, iAtom) THEN IndexError
    ELSE IF ~InRange(raw.NONBONDED_PARM_INDEX, NonbondIndex(types, iAtom)) THEN IndexError
    ELSE LET nbIndex == At(raw.NONBONDED_PARM_INDEX, NonbondIndex(types, iAtom)) - 1
         IN  IF nbIndex < 0 THEN TenTwelve
             ELSE IF ~InRange(raw.LENNARD_JONES_ACOEF, nbIndex)
                     \/ ~InRange(raw.LENNARD_JONES_BCOEF, nbIndex) THEN IndexError
             ELSE NoErr

NonbondTerm(types, iAtom) ==
    LET nbIndex == At(raw.NONBONDED_PARM_INDEX, NonbondIndex(types, iAtom)) - 1
    IN  LennardJones(At(raw.LENNARD_JONES_ACOEF, nbIndex),
                     At(raw.LENNARD_JONES_BCOEF, nbIndex))

getNonbondTerms(c) ==
    IF HasAttr(c, "_nonbondTerms") THEN Returned(c, c._nonbondTerms.val, {})
    ELSE LET n == getNumAtoms
             \* _getAtomTypeIndexes is called in every iteration of the loop
             t == IF n > 0 THEN _getAtomTypeIndexes(c) ELSE Returned(c, <<>>, {})
             types == t.val
             stop == FirstBad(n, LAMBDA iAtom : NonbondErr(types, iAtom) # NoErr)
             built == [ii \in 1..stop |-> NonbondTerm(types, ii - 1)]
             c2 == [t.cache EXCEPT !._nonbondTerms = Stored(built)]
             ran == t.ran \cup {"getNonbondTerms"}
         IN  IF stop < n
             THEN Raised(c2, NonbondErr(types, stop), ran)
             ELSE Returned(c2, built, ran)

-----------------------------------------------------------------------------
(* Bonds. *)

NegBond == "Found negative bonded atom pointers"
NegAngle == "Found negative angle atom pointers"
NegDihedral == "Found negative dihedral atom pointers"

\* What the iteration at offset ii of _getBonds raises, if anything.
BondErr(bondPointers, ii) ==
    LET len == Len(bondPointers)
        forceConstant == raw.BOND_FORCE_CONSTANT
        bondEquil == raw.BOND_EQUIL_VALUE
    IN  IF ii + 1 >= len THEN IndexError
        ELSE IF At(bondPointers, ii) < 0 \/ At(bondPointers, ii + 1) < 0 THEN NegBond
        ELSE IF ii + 2 >= len THEN IndexError
        ELSE LET iType == At(bondPointers, ii + 2) - 1
             IN  IF ~InRange(forceConstant, iType) \/ ~InRange(bondEquil, iType)
                 THEN IndexError ELSE NoErr

BondEntry(bondPointers, ii) ==
    LET iType == At(bondPointers, ii + 2) - 1
    IN  << At(bondPointers, ii) \div 3,
           At(bondPointers, ii + 1) \div 3,
           At(raw.BOND_FORCE_CONSTANT, iType),
           At(raw.BOND_EQUIL_VALUE, iType) >>

\* [err, val]: returnList is handed back only when no iteration raised.
_getBonds(bondPointers) ==
    LET n == RangeCount(Len(bondPointers), 3)
        stop == FirstBad(n, LAMBDA r : BondErr(bondPointers, 3 * r) # NoErr)
    IN  IF stop < n
        THEN [err |-> BondErr(bondPointers, 3 * stop), val |-> <<>>]
        ELSE [err |-> NoErr, val |-> [r \in 1..n |-> BondEntry(bondPointers, 3 * (r - 1))]]

getBondsWithH(c) ==
    IF HasAttr(c, "_bondListWithH") THEN Returned(c, c._bondListWithH.val, {})
    ELSE LET r == _getBonds(raw.BONDS_INC_HYDROGEN)
         IN  IF r.err # NoErr THEN Raised(c, r.err, {"getBondsWithH"})
             ELSE Returned([c EXCEPT !._bondListWithH = Stored(r.val)], r.val,
                           {"getBondsWithH"})

getBondsNoH(c) ==
    IF HasAttr(c, "_bondListNoH") THEN Returned(c, c._bondListNoH.val, {})
    ELSE LET r == _getBonds(raw.BONDS_WITHOUT_HYDROGEN)
         IN  IF r.err # NoErr THEN Raised(c, r.err, {"getBondsNoH"})
             ELSE Returned([c EXCEPT !._bondListNoH = Stored(r.val)], r.val,
                           {"getBondsNoH"})

-----------------------------------------------------------------------------
(* Angles and dihedrals. *)

AnglePointers == raw.ANGLES_INC_HYDROGEN \o raw.ANGLES_WITHOUT_HYDROGEN
DihedralPointers == raw.DIHEDRALS_INC_HYDROGEN \o raw.DIHEDRALS_WITHOUT_HYDROGEN

AngleErr(anglePointers, ii) ==
    LET len == Len(anglePointers)
    IN  IF ii + 2 >= len THEN IndexError
        ELSE IF At(anglePointers, ii) < 0 \/ At(anglePointers, ii + 1) < 0
                \/ At(anglePointers, ii + 2) < 0 THEN NegAngle
        ELSE IF ii + 3 >= len THEN IndexError
        ELSE LET iType == At(anglePointers, ii + 3) - 1
             IN  IF ~InRange(raw.ANGLE_FORCE_CONSTANT, iType)
                    \/ ~InRange(raw.ANGLE_EQUIL_VALUE, iType)
                 THEN IndexError ELSE NoErr

AngleEntry(anglePointers, ii) ==
    LET iType == At(anglePointers, ii + 3) - 1
    IN  << At(anglePointers, ii) \div 3,
           At(anglePointers, ii + 1) \div 3,
           At(anglePointers, ii + 2) \div 3,
           At(raw.ANGLE_FORCE_CONSTANT, iType),
           Rad2Deg(At(raw.ANGLE_EQUIL_VALUE, iType)) >>

getAngles(c) ==
    IF HasAttr(c, "_angleList") THEN Returned(c, c._angleList.val, {})
    ELSE LET anglePointers == AnglePointers
             n == RangeCount(Len(anglePointers), 4)
             stop == FirstBad(n, LAMBDA r : AngleErr(anglePointers, 4 * r) # NoErr)
             built == [r \in 1..stop |-> AngleEntry(anglePointers, 4 * (r - 1))]
             c2 == [c EXCEPT !._angleList = Stored(built)]
         IN  IF stop < n
             THEN Raised(c2, AngleErr(anglePointers, 4 * stop), {"getAngles"})
             ELSE Returned(c2, built, {"getAngles"})

DihedralErr(dihedralPointers, ii) ==
    LET len == Len(dihedralPointers)
    IN  IF ii + 1 >= len THEN IndexError
        ELSE IF At(dihedralPointers, ii) < 0 \/ At(dihedralPointers, ii + 1) < 0
             THEN (IF ii + 3 >= len THEN IndexError ELSE NegDihedral)
        ELSE IF ii + 4 >= len THEN IndexError
        ELSE LET iType == At(dihedralPointers, ii + 4) - 1
             IN  IF ~InRange(raw.DIHEDRAL_FORCE_CONSTANT, iType)
                    \/ ~InRange(raw.DIHEDRAL_PHASE, iType)
                    \/ ~InRange(raw.DIHEDRAL_PERIODICITY, iType)
                 THEN IndexError ELSE NoErr

DihedralEntry(dihedralPointers, ii) ==
    LET iType == At(dihedralPointers, ii + 4) - 1
    IN  << At(dihedralPointers, ii) \div 3,
           At(dihedralPointers, ii + 1) \div 3,
           Abs(At(dihedralPointers, ii + 2)) \div 3,
           Abs(At(dihedralPointers, ii + 3)) \div 3,
           At(raw.DIHEDRAL_FORCE_CONSTANT, iType),
           Rad2Deg(At(raw.DIHEDRAL_PHASE, iType)),
           (500 + At(raw.DIHEDRAL_PERIODICITY, iType)) \div 1000 >>

getDihedrals(c) ==
    IF HasAttr(c, "_dihedralList") THEN Returned(c, c._dihedralList.val, {})
    ELSE LET dihedralPointers == DihedralPointers
             n == RangeCount(Len(dihedralPointers), 5)
             stop == FirstBad(n, LAMBDA r : DihedralErr(dihedralPointers, 5 * r) # NoErr)
             built == [r \in 1..stop |-> DihedralEntry(dihedralPointers, 5 * (r - 1))]
             c2 == [c EXCEPT !._dihedralList = Stored(built)]
         IN  IF stop < n
             THEN Raised(c2, DihedralErr(dihedralPointers, 5 * stop), {"getDihedrals"})
             ELSE Returned(c2, built, {"getDihedrals"})

-----------------------------------------------------------------------------
(* 1-4 interactions. *)

\* A variant of Has14 that takes a zero index for a positive one.
Has14NonNegative(dihedralPointers, ii) ==
    At(dihedralPointers, ii + 2) >= 0 /\ At(dihedralPointers, ii + 3) >= 0

\* if int(dihedralPointers[ii+2])>0 and int(dihedralPointers[ii+3])>0
Has14(dihedralPointers, ii) ==
    At(dihedralPointers, ii + 2) > 0 /\ At(dihedralPointers, ii + 3) > 0

\* What the iteration at offset ii of get14Interactions raises, if anything.
Pair14Err(dihedralPointers, ii, charges, nonbondTerms) ==
    LET len == Len(dihedralPointers)
    IN  IF ii + 2 >= len THEN IndexError
        ELSE IF At(dihedralPointers, ii + 2) > 0 /\ ii + 3 >= len THEN IndexError
        ELSE IF ~Has14(dihedralPointers, ii) THEN NoErr
        ELSE LET iAtom == At(dihedralPointers, ii) \div 3
                 lAtom == At(dihedralPointers, ii + 3) \div 3
             IN  IF ~InRange(charges, iAtom) \/ ~InRange(charges, lAtom)
                    \/ ~InRange(nonbondTerms, iAtom) \/ ~InRange(nonbondTerms, lAtom)
                 THEN IndexError ELSE NoErr

Pair14Entry(dihedralPointers, ii, charges, nonbondTerms) ==
    LET iAtom == At(dihedralPointers, ii) \div 3
        lAtom == At(dihedralPointers, ii + 3) \div 3
    IN  << iAtom, lAtom,
           [k |-> "product", a |-> At(charges, iAtom), b |-> At(charges, lAtom)],
           [k |-> "sum", a |-> At(nonbondTerms, iAtom)[1], b |-> At(nonbondTerms, lAtom)[1]],
           [k |-> "sqrtproduct", a |-> At(nonbondTerms, iAtom)[2],
                                 b |-> At(nonbondTerms, lAtom)[2]] >>

\* The list built by the loop over the records at offsets 5*from, 5*(from+1), ...
RECURSIVE Pairs14(_, _, _, _, _)
Pairs14(dihedralPointers, from, to, charges, nonbondTerms) ==
    IF from >= to THEN <<>>
    ELSE (IF Has14(dihedralPointers, 5 * from)
          THEN <<Pair14Entry(dihedralPointers, 5 * from, charges, nonbondTerms)>>
          ELSE <<>>)
         \o Pairs14(dihedralPointers, from + 1, to, charges, nonbondTerms)

get14Interactions(c) ==
    LET dihedralPointers == DihedralPointers
        q == getCharges(c)
        t == getNonbondTerms(q.cache)
        ran == q.ran \cup t.ran \cup {"get14Interactions"}
        n == RangeCount(Len(dihedralPointers), 5)
        stop == FirstBad(n, LAMBDA r :
                    Pair14Err(dihedralPointers, 5 * r, q.val.value, t.val) # NoErr)
    IN  IF q.out = "raised" THEN Raised(q.cache, q.err, q.ran \cup {"get14Interactions"})
        ELSE IF t.out = "raised" THEN Raised(t.cache, t.err, ran)
        ELSE IF stop < n
             THEN Raised(t.cache, Pair14Err(dihedralPointers, 5 * stop, q.val.value, t.val), ran)
             ELSE Returned(t.cache, Pairs14(dihedralPointers, 0, n, q.val.value, t.val), ran)

-----------------------------------------------------------------------------
(* Exclusions and implicit-solvent parameters. *)

\* A variant of ExcludedOffset in which total is assigned, not accumulated.
ExcludedOffsetLastCount(numExcludedAtomsList, iAtom) ==
    IF iAtom = 0 THEN 0 ELSE At(numExcludedAtomsList, iAtom - 1)

\* index0 of atom iAtom: the sum of the counts of the atoms before it.
RECURSIVE ExcludedOffset(_, _)
ExcludedOffset(numExcludedAtomsList, iAtom) ==
    IF iAtom = 0 THEN 0
    ELSE ExcludedOffset(numExcludedAtomsList, iAtom - 1) + At(numExcludedAtomsList, iAtom - 1)

\* atomList: j-1 for the tokens j > 0 of the slice, in order.
RECURSIVE PositiveMinusOne(_)
PositiveMinusOne(tokens) ==
    IF tokens = <<>> THEN <<>>
    ELSE (IF Head(tokens) > 0 THEN <<Head(tokens) - 1>> ELSE <<>>)
         \o PositiveMinusOne(Tail(tokens))

ExcludedAtomList(numExcludedAtomsList, excludedAtomsList, iAtom) ==
    LET index0 == ExcludedOffset(numExcludedAtomsList, iAtom)
        index1 == index0 + At(numExcludedAtomsList, iAtom)
    IN  PositiveMinusOne(Slice(excludedAtomsList, index0, index1))

getExcludedAtoms(c) ==
    IF HasAttr(c, "_excludedAtoms") THEN Returned(c, c._excludedAtoms.val, {})
    ELSE LET numExcludedAtomsList == raw.NUMBER_EXCLUDED_ATOMS
             excludedAtomsList == raw.EXCLUDED_ATOMS_LIST
             n == getNumAtoms
             stop == FirstBad(n, LAMBDA iAtom : ~InRange(numExcludedAtomsList, iAtom))
             built == [k \in 1..stop |->
                         ExcludedAtomList(numExcludedAtomsList, excludedAtomsList, k - 1)]
             c2 == [c EXCEPT !._excludedAtoms = Stored(built)]
         IN  IF stop < n
             THEN Raised(c2, IndexError, {"getExcludedAtoms"})
             ELSE Returned(c2, built, {"getExcludedAtoms"})

\* self._raw_data[flag] raises KeyError for a section the file does not hold.
HasSection(flag) == flag \in raw.FLAGS

getGBSA_OBC(c) ==
    IF HasAttr(c, "_gbsa_obcList") THEN Returned(c, c._gbsa_obcList.val, {})
    ELSE LET radii == raw.RADII
             screen == raw.SCREEN
             n == Len(radii)
             stop == FirstBad(n, LAMBDA iAtom : ~InRange(screen, iAtom))
             built == [k \in 1..stop |-> <<radii[k], screen[k]>>]
         IN  IF ~HasSection("RADII") \/ ~HasSection("SCREEN")
             THEN Raised([c EXCEPT !._gbsa_obcList = Stored(<<>>)], KeyError, {"getGBSA_OBC"})
             ELSE IF stop < n
             THEN Raised([c EXCEPT !._gbsa_obcList = Stored(built)], IndexError, {"getGBSA_OBC"})
             ELSE Returned([c EXCEPT !._gbsa_obcList = Stored(built)], built, {"getGBSA_OBC"})

-----------------------------------------------------------------------------
(* Residue lookup. *)

\* A variant of ResidueScan that stops at a residue starting at iAtom itself.
ResidueScanInclusive(resPointers, iAtom) ==
    LET len == Len(resPointers)
        hits == {ii \in 1..(len - 1) : At(resPointers, ii) - 1 >= iAtom}
    IN  IF hits = {} THEN len - 1
        ELSE (CHOOSE ii \in hits : \A jj \in hits : ii <= jj) - 1

\* The scan of _getResiduePointer: iRes - 1.
ResidueScan(resPointers, iAtom) ==
    LET len == Len(resPointers)
        hits == {ii \in 1..(len - 1) : At(resPointers, ii) - 1 > iAtom}
    IN  IF hits = {} THEN len - 1
        ELSE (CHOOSE ii \in hits : \A jj \in hits : ii <= jj) - 1

_getResiduePointer(d, iAtom) ==
    IF d.set /\ iAtom \in DOMAIN d.val
    THEN [dict |-> d, val |-> d.val[iAtom], scanned |-> FALSE]
    ELSE LET iRes == ResidueScan(raw.RESIDUE_POINTER, iAtom)
             new == [a \in (DOMAIN d.val) \cup {iAtom} |->
                        IF a = iAtom THEN iRes ELSE d.val[a]]
         IN  [dict |-> Stored(new), val |-> iRes, scanned |-> TRUE]

-----------------------------------------------------------------------------
(* Accessor calls on a loader. *)

Callables == Accessors \cup {"_getResiduePointer", "getResidueNumber", "getResidueLabel"}

RECURSIVE Total(_, _)
Total(f, S) ==
    IF S = {} THEN 0
    ELSE LET x == CHOOSE y \in S : TRUE IN f[x] + Total(f, S \ {x})

\* The number of calls made so far.
calls == Total(called, Callables)

Apply(acc, r, nested) ==
    /\ calls < MaxCalls
    /\ called' = [called EXCEPT ![acc] = @ + 1]
    /\ cache' = r.cache
    /\ runs' = [a \in Callables |-> runs[a] + (IF a \in r.ran THEN 1 ELSE 0)]
    /\ raised' = raised \cup Failed(acc, r, nested)
    /\ last' = [acc |-> acc, out |-> r.out, err |-> r.err, val |-> r.val, arg |-> 0]
    /\ UNCHANGED <<raw, residuePointerDict, systemVars, readers, load, crd>>

NoNested == [a \in {} |-> 0]

GetMasses == Apply("getMasses", getMasses(cache), NoNested)
GetCharges == Apply("getCharges", getCharges(cache), NoNested)
GetAtomTypeIndexes == Apply("_getAtomTypeIndexes", _getAtomTypeIndexes(cache), NoNested)
GetNonbondTerms == Apply("getNonbondTerms", getNonbondTerms(cache), NoNested)
GetBondsWithH == Apply("getBondsWithH", getBondsWithH(cache), NoNested)
GetBondsNoH == Apply("getBondsNoH", getBondsNoH(cache), NoNested)
GetAngles == Apply("getAngles", getAngles(cache), NoNested)
GetDihedrals == Apply("getDihedrals", getDihedrals(cache), NoNested)
GetExcludedAtoms == Apply("getExcludedAtoms", getExcludedAtoms(cache), NoNested)
GetGBSA_OBC == Apply("getGBSA_OBC", getGBSA_OBC(cache), NoNested)
Get14Interactions ==
    LET q == getCharges(cache)
    IN  Apply("get14Interactions", get14Interactions(cache),
              [a \in {"getCharges", "getNonbondTerms"} |->
                  IF a = "getCharges" THEN q
                  ELSE IF q.out = "raised" THEN Returned(cache, <<>>, {})
                  ELSE getNonbondTerms(q.cache)])

ResidueCall(acc, iAtom, r, out, err, val) ==
    /\ calls < MaxCalls
    /\ called' = [called EXCEPT ![acc] = @ + 1]
    /\ residuePointerDict' = r.dict
    /\ last' = [acc |-> acc, out |-> out, err |-> err, val |-> val, arg |-> iAtom]
    /\ runs' = [runs EXCEPT !["_getResiduePointer"] = @ + (IF r.scanned THEN 1 ELSE 0)]
    /\ UNCHANGED <<raw, cache, raised, systemVars, readers, load, crd>>

\* getResidueNumber(iAtom)
GetResidueNumber(iAtom) ==
    LET r == _getResiduePointer(residuePointerDict, iAtom)
    IN  ResidueCall("getResidueNumber", iAtom, r, "returned", NoErr, r.val + 1)

\* getResidueLabel(iAtom, iRes)
GetResidueLabel(iAtom, iRes) ==
    LET untouched == [dict |-> residuePointerDict, val |-> 0, scanned |-> FALSE]
        r == _getResiduePointer(residuePointerDict, iAtom.v)
        label(i) == IF InRange(raw.RESIDUE_LABEL, i)
                    THEN <<"returned", NoErr, At(raw.RESIDUE_LABEL, i)>>
                    ELSE <<"raised", IndexError, "">>
    IN  IF ~iAtom.some /\ ~iRes.some
        THEN ResidueCall("getResidueLabel", 0, untouched, "raised",
                         "only specify iRes or iAtom, not both", "")
        ELSE IF iAtom.some /\ iRes.some
        THEN ResidueCall("getResidueLabel", iAtom.v, untouched, "raised",
                         "iRes or iAtom must be set", "")
        ELSE IF iRes.some
        THEN ResidueCall("getResidueLabel", 0, untouched,
                         label(iRes.v)[1], label(iRes.v)[2], label(iRes.v)[3])
        ELSE ResidueCall("getResidueLabel", iAtom.v, r,
                         label(r.val)[1], label(r.val)[2], label(r.val)[3])

\* A direct lookup _getResiduePointer(iAtom).
GetResiduePointer(iAtom) ==
    LET r == _getResiduePointer(residuePointerDict, iAtom)
    IN  ResidueCall("_getResiduePointer", iAtom, r, "returned", NoErr, r.val)

-----------------------------------------------------------------------------
(* The files a loader is constructed from. *)

Atoms == 0..(MaxAtoms - 1)

\* The 30 tokens of POINTERS; only the five the module reads are not 0.
Pointers(natom, ifpert, ifbox, ifcap) ==
    [i \in 1..Len(POINTER_LABEL_LIST) |->
        CASE POINTER_LABEL_LIST[i] = "NATOM" -> natom
          [] POINTER_LABEL_LIST[i] = "NTYPES" -> 2
          [] POINTER_LABEL_LIST[i] = "IFPERT" -> ifpert
          [] POINTER_LABEL_LIST[i] = "IFBOX" -> ifbox
          [] POINTER_LABEL_LIST[i] = "IFCAP" -> ifcap
          [] OTHER -> 0]

TypeNames == <<"H1", "OW", "CT">>
ResidueNames == <<"ALA", "GLY", "WAT">>

\* A well-formed file of MaxAtoms atoms of two types, one residue, no bonded
\* terms and no exclusions.
BaseFile ==
    [ POINTERS |-> Pointers(MaxAtoms, 0, 0, 0),
      FLAGS |-> {"RADII", "SCREEN"},
      MASS |-> [i \in 1..MaxAtoms |-> 1000 * i],
      CHARGE |-> [i \in 1..MaxAtoms |-> 100 * (i - 2)],
      ATOM_TYPE_INDEX |-> [i \in 1..MaxAtoms |-> 1 + (i % 2)],
      AMBER_ATOM_TYPE |-> [i \in 1..MaxAtoms |-> TypeNames[1 + ((i - 1) % 3)]],
      RESIDUE_POINTER |-> <<1>>,
      RESIDUE_LABEL |-> <<"ALA">>,
      NONBONDED_PARM_INDEX |-> <<1, 2, 2, 3>>,
      LENNARD_JONES_ACOEF |-> <<8000, 4000, 2000>>,
      LENNARD_JONES_BCOEF |-> <<2000, 1000, 1000>>,
      BOND_FORCE_CONSTANT |-> <<300000, 450000>>,
      BOND_EQUIL_VALUE |-> <<1500, 1000>>,
      BONDS_INC_HYDROGEN |-> <<>>,
      BONDS_WITHOUT_HYDROGEN |-> <<>>,
      ANGLE_FORCE_CONSTANT |-> <<50000, 80000>>,
      ANGLE_EQUIL_VALUE |-> <<1911, 2094>>,
      ANGLES_INC_HYDROGEN |-> <<>>,
      ANGLES_WITHOUT_HYDROGEN |-> <<>>,
      DIHEDRAL_FORCE_CONSTANT |-> <<2000, 150>>,
      DIHEDRAL_PHASE |-> <<3142, 0>>,
      DIHEDRAL_PERIODICITY |-> <<2000, 3000>>,
      DIHEDRALS_INC_HYDROGEN |-> <<>>,
      DIHEDRALS_WITHOUT_HYDROGEN |-> <<>>,
      NUMBER_EXCLUDED_ATOMS |-> [i \in 1..MaxAtoms |-> 0],
      EXCLUDED_ATOMS_LIST |-> <<>>,
      RADII |-> [i \in 1..MaxAtoms |-> 1500],
      SCREEN |-> [i \in 1..MaxAtoms |-> 800],
      BOX_DIMENSIONS |-> <<90000, 30000, 30000, 30000>> ]

\* Flatten a sequence of records (each a tuple) into a token sequence.
RECURSIVE Flatten(_)
Flatten(recs) == IF recs = <<>> THEN <<>> ELSE Head(recs) \o Flatten(Tail(recs))

Prefix(q, k) == SubSeq(q, 1, k)

\* The k-th record of a bonded section.  Its atoms follow from k, so that
\* records differ and their order shows; the type index and, for a dihedral,
\* the signs of the third and fourth index are free.
RawAtom(k) == 3 * (k % MaxAtoms)
BondRec(k, t) == <<RawAtom(k - 1), RawAtom(k), t>>
AngleRec(k, t) == <<RawAtom(k - 1), RawAtom(k), RawAtom(k + 1), t>>
DihedralRec(k, s3, s4, t) ==
    << RawAtom(k - 1), RawAtom(k),
       s3 * 3 * (1 + (k % (MaxAtoms - 1))),
       s4 * 3 * (1 + ((k - 1) % (MaxAtoms - 1))), t >>

\* The with-hydrogen and without-hydrogen sections of at most MaxRecs records
\* each, the free fields of every record drawn from Free; Rec(k, f) is the
\* k-th record overall.
BondedSections(Rec(_, _), Free) ==
    UNION { UNION { { [withH |-> Flatten([k \in 1..nH |-> Rec(k, f[k])]),
                       noH |-> Flatten([k \in 1..nA |-> Rec(nH + k, f[nH + k])])] :
                      f \in [1..(nH + nA) -> Free] } :
                    nA \in 0..MaxRecs } :
            nH \in 0..MaxRecs }

BondFiles ==
    { [BaseFile EXCEPT !.BONDS_INC_HYDROGEN = b.withH, !.BONDS_WITHOUT_HYDROGEN = b.noH] :
        b \in BondedSections(BondRec, {1, 2}) }

Signs == {<<1, 1>>, <<-1, 1>>, <<1, -1>>, <<0, 1>>}

DihedralFiles ==
    { [BaseFile EXCEPT !.DIHEDRALS_INC_HYDROGEN = b.withH,
                       !.DIHEDRALS_WITHOUT_HYDROGEN = b.noH] :
        b \in BondedSections(LAMBDA k, f : DihedralRec(k, f[1], f[2], 1 + (k % 2)), Signs) }

\* Exclusions: every count from 0 to MaxExcl for every atom; the flat list
\* cycles through 0..MaxAtoms from a free starting value, so that it holds
\* zeros and neighbouring tokens differ.
RECURSIVE Sum(_, _)
Sum(f, n) == IF n = 0 THEN 0 ELSE f[n] + Sum(f, n - 1)

ExclusionFiles ==
    { [BaseFile EXCEPT !.NUMBER_EXCLUDED_ATOMS = counts,
                       !.EXCLUDED_ATOMS_LIST =
                           [p \in 1..Sum(counts, MaxAtoms) |-> (p + shift) % (MaxAtoms + 1)]] :
        counts \in [1..MaxAtoms -> 0..MaxExcl], shift \in 0..MaxAtoms }

\* Lennard-Jones tables: any type for any atom; a diagonal cell of
\* NONBONDED_PARM_INDEX may be negative (a 10-12 row); a coefficient may be 0.
LennardJonesFiles ==
    { [BaseFile EXCEPT !.ATOM_TYPE_INDEX = types,
                       !.NONBONDED_PARM_INDEX = cells,
                       !.LENNARD_JONES_ACOEF = acoef,
                       !.LENNARD_JONES_BCOEF = bcoef] :
        types \in [1..MaxAtoms -> 1..2],
        cells \in {<<1, 2, 2, 3>>, <<-1, 2, 2, 3>>, <<1, 2, 2, -1>>, <<3, 2, 2, 1>>},
        acoef \in {<<8000, 4000, 2000>>, <<0, 4000, 2000>>},
        bcoef \in {<<2000, 1000, 1000>>, <<0, 1000, 1000>>, <<2000, 1000, 0>>, <<0, 0, 0>>} }

\* Files on which a derivation raises part-way: a section that ends early, a
\* negative atom pointer in a record, a 10-12 row for one type.
BrokenFiles ==
    LET angles == Flatten([k \in 1..MaxRecs |-> AngleRec(k, 1)])
        dihedrals == Flatten([k \in 1..MaxRecs |-> DihedralRec(k, 1, 1, 1)])
        bonds == Flatten([k \in 1..MaxRecs |-> BondRec(k, 1)])
        full == [BaseFile EXCEPT !.ANGLES_INC_HYDROGEN = angles,
                                 !.DIHEDRALS_WITHOUT_HYDROGEN = dihedrals,
                                 !.BONDS_INC_HYDROGEN = bonds,
                                 !.BONDS_WITHOUT_HYDROGEN = bonds,
                                 !.NUMBER_EXCLUDED_ATOMS = [i \in 1..MaxAtoms |-> 1],
                                 !.EXCLUDED_ATOMS_LIST = [i \in 1..MaxAtoms |-> i % MaxAtoms]]
    IN  {full}
        \cup {[full EXCEPT !.MASS = Prefix(@, k)] : k \in 0..(MaxAtoms - 1)}
        \cup {[full EXCEPT !.CHARGE = Prefix(@, k)] : k \in 0..(MaxAtoms - 1)}
        \cup {[full EXCEPT !.NUMBER_EXCLUDED_ATOMS = Prefix(@, k)] : k \in 0..(MaxAtoms - 1)}
        \cup {[full EXCEPT !.SCREEN = Prefix(@, k)] : k \in 0..(MaxAtoms - 1)}
        \cup {[full EXCEPT !.FLAGS = {}]}
        \cup {[full EXCEPT !.ANGLES_INC_HYDROGEN[p] = -3] :
                p \in {q \in 1..Len(angles) : q % 4 # 0}}
        \cup {[full EXCEPT !.DIHEDRALS_WITHOUT_HYDROGEN[p] = -3] :
                p \in {q \in 1..Len(dihedrals) : q % 5 \in {1, 2}}}
        \cup {[full EXCEPT !.BONDS_WITHOUT_HYDROGEN[p] = -3] :
                p \in {q \in 1..Len(bonds) : q % 3 # 0}}
        \cup {[full EXCEPT !.NONBONDED_PARM_INDEX = cells] :
                cells \in {<<-1, 2, 2, 3>>, <<1, 2, 2, -1>>}}

-----------------------------------------------------------------------------
(* Specifications of the loader. *)

\* No file is being read.
NoLoad == [pc |-> "none"]
NoCrd == [pc |-> "none"]

NoCall == [acc |-> "none", out |-> "none", err |-> NoErr, val |-> <<>>, arg |-> 0]

\* There is no system before mm.System() has run.
NoSystem == [created |-> FALSE, particles |-> <<>>, constraints |-> <<>>,
             forces |-> <<>>, box |-> <<>>]

NoForces == [HarmonicBondForce |-> <<>>, HarmonicAngleForce |-> <<>>,
             PeriodicTorsionForce |-> <<>>, NonbondedMethod |-> "unset",
             NonbondedCutoff |-> None, NonbondedParticles |-> <<>>,
             NonbondedExceptions |-> <<>>, GBSAOBCForce |-> <<>>,
             GBMethod |-> "unset", GBCutoff |-> None]

DefaultArgs ==
    [source |-> "filename", shake |-> "None", flexibleConstraints |-> TRUE,
     scee |-> 1200, scnb |-> 2000, gbmodel |-> "None",
     nonbondedMethod |-> "NoCutoff", nonbondedCutoff |-> None]

InitSystemWith(a) ==
    /\ pc = "idle"
    /\ args = a
    /\ system = NoSystem
    /\ forces = NoForces
    /\ excludedAtomPairs = {}
    /\ error = NoErr

InitSystem == InitSystemWith(DefaultArgs)

\* A loader just constructed from one of the files.
InitFresh(files) ==
    /\ raw \in files
    /\ cache = EmptyCache
    /\ residuePointerDict = Unset
    /\ called = [a \in Callables |-> 0]
    /\ runs = [a \in Callables |-> 0]
    /\ raised = {}
    /\ last = NoCall
    /\ crd = NoCrd

\* A loader with one client, constructed earlier.
InitLoaded(files) == InitFresh(files) /\ readers = <<>>
InitLoader(files) == InitLoaded(files) /\ load = NoLoad

\* Any accessor, in any order, on a sound or a broken file.
Init == InitLoader(BrokenFiles) /\ InitSystem

Next ==
    \/ GetMasses
    \/ GetCharges
    \/ GetAtomTypeIndexes
    \/ GetNonbondTerms
    \/ GetBondsWithH
    \/ GetBondsNoH
    \/ GetAngles
    \/ GetDihedrals
    \/ Get14Interactions
    \/ GetExcludedAtoms
    \/ GetGBSA_OBC

Spec == Init /\ [][Next]_vars

\* Residue boundaries: every strictly increasing RESIDUE_POINTER that starts
\* at atom 1.
ResidueFiles ==
    { [BaseFile EXCEPT !.RESIDUE_POINTER =
          [r \in 1..(Cardinality(S) + 1) |->
              IF r = 1 THEN 1
              ELSE CHOOSE x \in S : Cardinality({y \in S : y < x}) = r - 2],
                       !.RESIDUE_LABEL =
          [r \in 1..(Cardinality(S) + 1) |-> ResidueNames[1 + ((r - 1) % 3)]]] :
        S \in SUBSET (2..MaxAtoms) }

\* The exclusion and Lennard-Jones accessors on every exclusion and
\* Lennard-Jones table of the bounds.
InitNonbond == InitLoader(ExclusionFiles \cup LennardJonesFiles) /\ InitSystem
NextNonbond ==
    \/ GetNonbondTerms
    \/ GetExcludedAtoms
SpecNonbond == InitNonbond /\ [][NextNonbond]_vars

\* The dihedral accessors on every dihedral section of the bounds.
InitDihedral == InitLoader(DihedralFiles) /\ InitSystem
NextDihedral ==
    \/ GetDihedrals
    \/ Get14Interactions
SpecDihedral == InitDihedral /\ [][NextDihedral]_vars

\* Residue lookups on every residue partition of the bounds.
InitResidue == InitLoader(ResidueFiles) /\ InitSystem
NextResidue ==
    \/ \E iAtom \in Atoms : GetResiduePointer(iAtom)
    \/ \E iAtom \in Atoms : GetResidueNumber(iAtom)
    \/ \E iAtom \in {None} \cup {Some(a) : a \in Atoms}, iRes \in {None, Some(0)} :
          GetResidueLabel(iAtom, iRes)
SpecResidue == InitResidue /\ [][NextResidue]_vars

-----------------------------------------------------------------------------
(* Memoization (C3) and failure of a derivation (C4). *)

\* The memo attribute of each accessor that keeps one; get14Interactions
\* keeps none.
AttrOf ==
    [ getMasses |-> "_massList", getCharges |-> "_chargeList",
      _getAtomTypeIndexes |-> "_atomTypeIndexes", getNonbondTerms |-> "_nonbondTerms",
      getBondsWithH |-> "_bondListWithH", getBondsNoH |-> "_bondListNoH",
      getAngles |-> "_angleList", getDihedrals |-> "_dihedralList",
      getExcludedAtoms |-> "_excludedAtoms", getGBSA_OBC |-> "_gbsa_obcList" ]

\* C3 as stated: every derived collection, the 1-4 exceptions included, is
\* derived at most once over any sequence of accessor calls.
C3_DerivedAtMostOnce == \A a \in Accessors : runs[a] <= 1

\* C3, amended: once the memo attribute of an accessor is stored, no later
\* call (direct or nested) runs its derivation again, and a later direct call
\* returns the stored value; an accessor that stores its attribute before it
\* derives (all but the two bond accessors, which store on success only)
\* derives at most once.
C3_MemoizedOnce ==
    [][ \A a \in DOMAIN AttrOf :
          cache[AttrOf[a]].set =>
            /\ runs'[a] = runs[a]
            /\ cache'[AttrOf[a]] = cache[AttrOf[a]]
            /\ called'[a] > called[a] =>
                 last'.out = "returned" /\ last'.val = cache[AttrOf[a]].val ]_vars

\* A second call of getDihedrals has returned the list its first call derived.
C3_Witness ==
    /\ called["getDihedrals"] >= 2
    /\ runs["getDihedrals"] = 1
    /\ last.acc = "getDihedrals"
    /\ last.out = "returned"
    /\ Len(last.val) = MaxRecs

\* C4 as stated: an accessor one of whose calls raised never returns a
\* collection afterwards.
C4_FailsAtomically == last.out = "returned" => last.acc \notin raised

-----------------------------------------------------------------------------
(* 1-4 interactions (C7). *)

\* The m-th smallest element of a set of integers is the one of rank m.
Rank(S, x) == Cardinality({y \in S : y <= x})

\* The dihedral records of the file, with-hydrogen records first: record r
\* (from 0) is the tokens 5r+1 .. 5r+5 of the two sections laid end to end.
DihedralRecord(r) ==
    LET nH == Len(raw.DIHEDRALS_INC_HYDROGEN) \div 5
    IN  IF r < nH THEN SubSeq(raw.DIHEDRALS_INC_HYDROGEN, 5 * r + 1, 5 * r + 5)
        ELSE SubSeq(raw.DIHEDRALS_WITHOUT_HYDROGEN, 5 * (r - nH) + 1, 5 * (r - nH) + 5)

NumDihedralRecords ==
    (Len(raw.DIHEDRALS_INC_HYDROGEN) + Len(raw.DIHEDRALS_WITHOUT_HYDROGEN)) \div 5

BothPositive == {r \in 0..(NumDihedralRecords - 1) :
                    DihedralRecord(r)[3] > 0 /\ DihedralRecord(r)[4] > 0}

\* C7: the list get14Interactions returns holds, in record order, one entry
\* (raw1/3, raw4/3) for each dihedral record whose third and fourth raw
\* indices are both positive, and nothing else; a record with a negative
\* third or fourth index has no entry.
C7_Exactly14 ==
    (last.acc = "get14Interactions" /\ last.out = "returned") =>
        /\ Len(last.val) = Cardinality(BothPositive)
        /\ \A r \in BothPositive :
              /\ last.val[Rank(BothPositive, r)][1] = DihedralRecord(r)[1] \div 3
              /\ last.val[Rank(BothPositive, r)][2] = DihedralRecord(r)[4] \div 3

\* get14Interactions has returned entries for a with-hydrogen and a
\* without-hydrogen record and skipped a record with a negative index.
C7_Witness ==
    /\ last.acc = "get14Interactions"
    /\ last.out = "returned"
    /\ Len(last.val) >= 2
    /\ last.val[1][1] # last.val[2][1]
    /\ \E r \in BothPositive : r < Len(raw.DIHEDRALS_INC_HYDROGEN) \div 5
    /\ \E r \in BothPositive : r >= Len(raw.DIHEDRALS_INC_HYDROGEN) \div 5
    /\ \E r \in 0..(NumDihedralRecords - 1) :
          DihedralRecord(r)[3] < 0 \/ DihedralRecord(r)[4] < 0

-----------------------------------------------------------------------------
(* Residue lookup (C8). *)

\* The residues (from 0) whose first atom (from 0) is not after iAtom.
ResiduesNotAfter(iAtom) ==
    {r \in 0..(Len(raw.RESIDUE_POINTER) - 1) : raw.RESIDUE_POINTER[r + 1] - 1 <= iAtom}

IsGreatest(r, S) == r \in S /\ \A x \in S : x <= r

\* C8: on a strictly increasing RESIDUE_POINTER that starts at atom 1, every
\* lookup of an atom returns the greatest residue whose first atom is not
\* after it, first and repeated lookups alike; the ids on record are
\* non-decreasing in the atom index.
C8_ResidueOfAtom ==
    /\ \A a \in DOMAIN residuePointerDict.val :
          IsGreatest(residuePointerDict.val[a], ResiduesNotAfter(a))
    /\ \A a, b \in DOMAIN residuePointerDict.val :
          a <= b => residuePointerDict.val[a] <= residuePointerDict.val[b]
    /\ last.acc = "_getResiduePointer" =>
          /\ IsGreatest(last.val, ResiduesNotAfter(last.arg))
          /\ last.val = residuePointerDict.val[last.arg]

\* An atom has been looked up twice and scanned for once, and atoms of two
\* residues are on record, one of them the first atom of its residue.
C8_Witness ==
    /\ called["_getResiduePointer"] = 3
    /\ runs["_getResiduePointer"] = 2
    /\ last.acc = "_getResiduePointer"
    /\ \E a, b \in DOMAIN residuePointerDict.val :
          /\ residuePointerDict.val[a] < residuePointerDict.val[b]
          /\ raw.RESIDUE_POINTER[residuePointerDict.val[b] + 1] - 1 = b

-----------------------------------------------------------------------------
(* Exclusions (C9). *)

\* The positions (from 1) of EXCLUDED_ATOMS_LIST that belong to atom k (from
\* 1): the NUMBER_EXCLUDED_ATOMS[k] positions after those of the atoms before.
PositionsOf(k) ==
    LET before == Sum(raw.NUMBER_EXCLUDED_ATOMS, k - 1)
    IN  (before + 1)..(before + raw.NUMBER_EXCLUDED_ATOMS[k])

PositivePositionsOf(k) == {p \in PositionsOf(k) : raw.EXCLUDED_ATOMS_LIST[p] > 0}

\* C9: getExcludedAtoms returns NATOM lists; list k holds, in order, j-1 for
\* the positive tokens j among the tokens of atom k, and nothing else.
C9_RunLength ==
    (last.acc = "getExcludedAtoms" /\ last.out = "returned") =>
        /\ Len(last.val) = getNumAtoms
        /\ \A k \in 1..getNumAtoms :
              /\ Len(last.val[k]) = Cardinality(PositivePositionsOf(k))
              /\ \A p \in PositivePositionsOf(k) :
                    last.val[k][Rank(PositivePositionsOf(k), p)]
                        = raw.EXCLUDED_ATOMS_LIST[p] - 1

\* getExcludedAtoms has returned lists for a file in which an atom after the
\* first has two tokens, one of them dropped, and an earlier atom has tokens.
C9_Witness ==
    /\ last.acc = "getExcludedAtoms"
    /\ last.out = "returned"
    /\ \E k \in 2..getNumAtoms :
          /\ raw.NUMBER_EXCLUDED_ATOMS[k] = 2
          /\ Len(last.val[k]) = 1
          /\ \E j \in 1..(k - 1) : Len(last.val[j]) >= 1

-----------------------------------------------------------------------------
(* Lennard-Jones terms (C10). *)

\* The coefficient row (from 0) of atom i (from 1).
RowOf(i) ==
    raw.NONBONDED_PARM_INDEX[(raw.POINTERS[2] + 1) * (raw.ATOM_TYPE_INDEX[i] - 1) + 1] - 1

\* C10: if the row of some atom is negative, getNonbondTerms raises the
\* 10-12 error; otherwise it returns a term for every atom, and the term of
\* an atom whose row has B = 0 is rMin = 1.0 (held as rMin/2.0 = 1/2) and
\* epsilon = 0.0, while a row with A and B not 0 gives the computed pair.
C10_DegenerateOrUnsupported ==
    (last.acc = "getNonbondTerms" /\ called["getNonbondTerms"] = 1) =>
        IF \E i \in 1..getNumAtoms : RowOf(i) < 0
        THEN last.out = "raised" /\ last.err = TenTwelve
        ELSE /\ last.out = "returned"
             /\ Len(last.val) = getNumAtoms
             /\ \A i \in 1..getNumAtoms :
                   LET a == raw.LENNARD_JONES_ACOEF[RowOf(i) + 1]
                       b == raw.LENNARD_JONES_BCOEF[RowOf(i) + 1]
                   IN  /\ b = 0 => last.val[i] = <<Rat(1, 2), Rat(0, 1)>>
                       /\ (a # 0 /\ b # 0) =>
                             last.val[i] = <<Root6Half(2 * a, b), Rat(b * b, 4000 * a)>>

\* getNonbondTerms has returned the terms of a file in which one atom has a
\* row with B = 0 and a later atom a row with A and B not 0.
C10_Witness ==
    /\ last.acc = "getNonbondTerms"
    /\ last.out = "returned"
    /\ \E i, j \in 1..getNumAtoms :
          /\ i < j
          /\ raw.LENNARD_JONES_BCOEF[RowOf(i) + 1] = 0
          /\ raw.LENNARD_JONES_BCOEF[RowOf(j) + 1] # 0
          /\ raw.LENNARD_JONES_ACOEF[RowOf(j) + 1] # 0
          /\ last.val[j][1].k = "root6half"

-----------------------------------------------------------------------------
(* readAmberSystem, one action for each section of the function. *)

\* The function leaves by an exception.
Fail(e) == pc' = "error" /\ error' = e

\* The loader after a section has called its accessors; the calls the
\* section makes are not calls of the loader's client.
Use(c, ran) ==
    /\ cache' = c
    /\ runs' = [a \in Callables |-> runs[a] + (IF a \in ran THEN 1 ELSE 0)]
    /\ UNCHANGED <<raw, residuePointerDict, called, raised, last>>

ArgumentError ==
    IF args.source = "neither" THEN "Must specify a filename or loader"
    ELSE IF args.source = "both" THEN "Cannot specify both a filename and a loader"
    ELSE NoErr

\* A variant of UnsupportedFlags that lets every box flag through.
UnsupportedFlagsAnyBox ==
    IF getIfCap > 0 THEN "CAP option not currently supported"
    ELSE IF getIfPert > 0 THEN "perturbation not currently supported"
    ELSE NoErr

\* The three checks of the pointer flags, in the order of the code.
UnsupportedFlags ==
    IF getIfCap > 0 THEN "CAP option not currently supported"
    ELSE IF getIfPert > 0 THEN "perturbation not currently supported"
    ELSE IF getIfBox > 1 THEN "only standard periodic boxes are currently supported"
    ELSE NoErr

\* The argument and flag checks, then mm.System().
CreateSystem ==
    /\ pc = "idle"
    /\ IF ArgumentError # NoErr THEN Fail(ArgumentError) /\ UNCHANGED system
       ELSE IF UnsupportedFlags # NoErr THEN Fail(UnsupportedFlags) /\ UNCHANGED system
       ELSE /\ pc' = "particles"
            /\ system' = [system EXCEPT !.created = TRUE]
            /\ UNCHANGED error
    /\ UNCHANGED <<loaderVars, args, forces, excludedAtomPairs, readers, load, crd>>

\* for mass in prmtop.getMasses(): system.addParticle(mass)
AddParticles ==
    /\ pc = "particles"
    /\ LET m == getMasses(cache)
       IN  /\ Use(m.cache, m.ran)
           /\ IF m.out = "raised" THEN Fail(m.err) /\ UNCHANGED system
              ELSE /\ system' = [system EXCEPT !.particles = m.val.value]
                   /\ pc' = "constraints"
                   /\ UNCHANGED error
    /\ UNCHANGED <<args, forces, excludedAtomPairs, readers, load, crd>>

ShakeH == args.shake \in {"h-bonds", "all-bonds", "h-angles"}
ShakeAll == args.shake \in {"all-bonds", "h-angles"}

\* The accessor is called only when the condition of its loop holds.
CallIf(cond, r, c) == IF cond THEN r ELSE Returned(c, <<>>, {})

\* A variant of BondConstraints that passes k where rMin belongs.
BondConstraintsByConstant(bonds) ==
    [b \in 1..Len(bonds) |-> <<bonds[b][1], bonds[b][2], bonds[b][3]>>]

\* system.addConstraint(iAtom, jAtom, rMin) for every bond of a list.
BondConstraints(bonds) == [b \in 1..Len(bonds) |-> <<bonds[b][1], bonds[b][2], bonds[b][4]>>]

\* Add constraints.
AddConstraints ==
    /\ pc = "constraints"
    /\ LET h == CallIf(ShakeH, getBondsWithH(cache), cache)
           a == CallIf(ShakeAll /\ h.out = "returned", getBondsNoH(h.cache), h.cache)
       IN  /\ Use(a.cache, h.ran \cup a.ran)
           /\ system' = [system EXCEPT !.constraints =
                            @ \o BondConstraints(h.val) \o BondConstraints(a.val)]
           /\ IF h.out = "raised" THEN Fail(h.err)
              ELSE IF a.out = "raised" THEN Fail(a.err)
              ELSE pc' = "bonds" /\ UNCHANGED error
    /\ UNCHANGED <<args, forces, excludedAtomPairs, readers, load, crd>>

\* A variant of HarmonicBonds that adds the stored force constant.
HarmonicBondsUndoubled(bonds) ==
    [b \in 1..Len(bonds) |-> <<bonds[b][1], bonds[b][2], bonds[b][4], bonds[b][3]>>]

\* force.addBond(iAtom, jAtom, rMin, 2*k) for every bond of a list.
HarmonicBonds(bonds) ==
    [b \in 1..Len(bonds) |-> <<bonds[b][1], bonds[b][2], bonds[b][4], 2 * bonds[b][3]>>]

\* Add harmonic bonds.
AddBonds ==
    /\ pc = "bonds"
    /\ LET h == CallIf(args.flexibleConstraints \/ ~ShakeH, getBondsWithH(cache), cache)
           a == CallIf((args.flexibleConstraints \/ ~ShakeAll) /\ h.out = "returned",
                       getBondsNoH(h.cache), h.cache)
       IN  /\ Use(a.cache, h.ran \cup a.ran)
           /\ IF h.out = "raised" THEN Fail(h.err) /\ UNCHANGED <<system, forces>>
              ELSE IF a.out = "raised" THEN Fail(a.err) /\ UNCHANGED <<system, forces>>
              ELSE /\ forces' = [forces EXCEPT !.HarmonicBondForce =
                                    HarmonicBonds(h.val) \o HarmonicBonds(a.val)]
                   /\ system' = [system EXCEPT !.forces = Append(@, "HarmonicBondForce")]
                   /\ pc' = "angles"
                   /\ UNCHANGED error
    /\ UNCHANGED <<args, excludedAtomPairs, readers, load, crd>>

\* type.startswith(letter), for the type names of the files.
StartsWith(type, letter) ==
    CASE type = "H1" -> letter = "H"
      [] type = "OW" -> letter = "O"
      [] type = "CT" -> letter = "C"
      [] OTHER -> FALSE

\* atomConstraints = [[]]*n holds one list n times over, so every append
\* lands in the list that every atom reads.  sharedList is that list after
\* the first upto constraints.
SharedConstraintList(upto) ==
    Flatten([i \in 1..upto |->
        << <<system.constraints[i][2], system.constraints[i][3]>>,
           <<system.constraints[i][1], system.constraints[i][3]>> >>])

\* atomConstraints[c[0]] or atomConstraints[c[1]] is out of range.
AtomConstraintsErr(i) ==
    \/ ~InRange(system.particles, system.constraints[i][1])
    \/ ~InRange(system.particles, system.constraints[i][2])

\* The distance in bond[1] of the last bond of the list that passes Test.
LastLength(bonds, Test(_)) ==
    LET hits == {b \in 1..Len(bonds) : Test(bonds[b])}
    IN  IF hits = {} THEN None
        ELSE Some(bonds[CHOOSE b \in hits : \A o \in hits : o <= b][2])

\* constrained, for an angle whose three type lookups succeed.
AngleConstrained(angle) ==
    /\ args.shake = "h-angles"
    /\ LET type1 == getAtomType(angle[1])
           type2 == getAtomType(angle[2])
           type3 == getAtomType(angle[3])
           numH == (IF StartsWith(type1, "H") THEN 1 ELSE 0)
                     + (IF StartsWith(type3, "H") THEN 1 ELSE 0)
       IN  numH = 2 \/ (numH = 1 /\ StartsWith(type2, "O"))

AngleL1(angle, bonds) == LastLength(bonds, LAMBDA bond : bond[1] = angle[1])
AngleL2(angle, bonds) ==
    LastLength(bonds, LAMBDA bond : bond[1] # angle[1] /\ bond[1] = angle[2])

\* What the iteration of the angle loop raises for angle, if anything.
AngleLoopErr(angle, bonds) ==
    IF args.shake # "h-angles" THEN NoErr
    ELSE IF \E a \in 1..3 : ~InRange(getAtomTypes, angle[a]) THEN IndexError
    ELSE IF AngleConstrained(angle)
            /\ (~AngleL1(angle, bonds).some \/ ~AngleL2(angle, bonds).some)
    THEN TypeError
    ELSE NoErr

AngleConstraint(angle, bonds) ==
    << angle[1], angle[3],
       [k |-> "lawOfCosines", a |-> AngleL1(angle, bonds).v,
        b |-> AngleL2(angle, bonds).v, angle |-> angle[5]] >>

RECURSIVE AngleConstraints(_, _)
AngleConstraints(angles, bonds) ==
    IF angles = <<>> THEN <<>>
    ELSE (IF AngleConstrained(Head(angles))
          THEN <<AngleConstraint(Head(angles), bonds)>> ELSE <<>>)
         \o AngleConstraints(Tail(angles), bonds)

RECURSIVE HarmonicAngles(_)
HarmonicAngles(angles) ==
    IF angles = <<>> THEN <<>>
    ELSE (IF args.flexibleConstraints \/ ~AngleConstrained(Head(angles))
          THEN << <<Head(angles)[1], Head(angles)[2], Head(angles)[3],
                    Head(angles)[5], 2 * Head(angles)[4]>> >>
          ELSE <<>>)
         \o HarmonicAngles(Tail(angles))

\* Add harmonic angles.
AddAngles ==
    /\ pc = "angles"
    /\ LET numConstraints == IF args.shake = "h-angles" THEN Len(system.constraints) ELSE 0
           badConstraint == FirstBad(numConstraints, LAMBDA i : AtomConstraintsErr(i + 1))
           bonds == SharedConstraintList(numConstraints)
           g == CallIf(badConstraint = numConstraints, getAngles(cache), cache)
           n == Len(g.val)
           stop == IF g.out = "raised" THEN 0
                   ELSE FirstBad(n, LAMBDA r : AngleLoopErr(g.val[r + 1], bonds) # NoErr)
           done == SubSeq(g.val, 1, stop)
       IN  /\ Use(g.cache, g.ran)
           /\ IF badConstraint < numConstraints
              THEN Fail(IndexError) /\ UNCHANGED <<system, forces>>
              ELSE IF g.out = "raised" THEN Fail(g.err) /\ UNCHANGED <<system, forces>>
              ELSE IF stop < n
              THEN /\ Fail(AngleLoopErr(g.val[stop + 1], bonds))
                   /\ system' = [system EXCEPT !.constraints =
                                    @ \o AngleConstraints(done, bonds)]
                   /\ UNCHANGED forces
              ELSE /\ system' = [system EXCEPT
                                    !.constraints = @ \o AngleConstraints(done, bonds),
                                    !.forces = Append(@, "HarmonicAngleForce")]
                   /\ forces' = [forces EXCEPT !.HarmonicAngleForce = HarmonicAngles(done)]
                   /\ pc' = "torsions"
                   /\ UNCHANGED error
    /\ UNCHANGED <<args, excludedAtomPairs, readers, load, crd>>

\* Add torsions.
AddTorsions ==
    /\ pc = "torsions"
    /\ LET d == getDihedrals(cache)
       IN  /\ Use(d.cache, d.ran)
           /\ IF d.out = "raised" THEN Fail(d.err) /\ UNCHANGED <<system, forces>>
              ELSE /\ forces' = [forces EXCEPT !.PeriodicTorsionForce =
                                    [r \in 1..Len(d.val) |->
                                        <<d.val[r][1], d.val[r][2], d.val[r][3], d.val[r][4],
                                          d.val[r][7], d.val[r][6], d.val[r][5]>>]]
                   /\ system' = [system EXCEPT !.forces = Append(@, "PeriodicTorsionForce")]
                   /\ pc' = "nonbonded"
                   /\ UNCHANGED error
    /\ UNCHANGED <<args, excludedAtomPairs, readers, load, crd>>

\* prmtop.getBoxBetaAndDimensions(): [err, val].
getBoxBetaAndDimensions ==
    IF ~HasSection("BOX_DIMENSIONS") THEN [err |-> KeyError, val |-> <<>>]
    ELSE IF Len(raw.BOX_DIMENSIONS) < 4 THEN [err |-> IndexError, val |-> <<>>]
    ELSE [err |-> NoErr, val |-> SubSeq(raw.BOX_DIMENSIONS, 1, 4)]

\* What the choice of the nonbonded method raises, if anything.
NonbondedMethodErr ==
    IF getIfBox = 0
    THEN CASE args.nonbondedMethod = "NoCutoff" -> NoErr
           [] args.nonbondedMethod = "CutoffNonPeriodic" ->
                  IF ~args.nonbondedCutoff.some THEN "No cutoff value specified" ELSE NoErr
           [] OTHER -> "Illegal nonbonded method for a non-periodic system"
    ELSE IF args.nonbondedMethod \in
               {"NoCutoff", "CutoffNonPeriodic", "CutoffPeriodic", "Ewald", "PME"}
         THEN NoErr ELSE "Cutoff method not understood."

\* The cutoff computed from the smallest box length.
AutomaticCutoff(box) == Some([k |-> "halfMinWidth", x |-> box[2], y |-> box[3], z |-> box[4]])

\* Add nonbonded interactions: the method, the cutoff and the box.
SetNonbondedMethod ==
    /\ pc = "nonbonded"
    /\ IF getIfBox = 0
       THEN /\ IF NonbondedMethodErr # NoErr
               THEN Fail(NonbondedMethodErr) /\ UNCHANGED forces
               ELSE /\ forces' = [forces EXCEPT
                            !.NonbondedMethod = args.nonbondedMethod,
                            !.NonbondedCutoff =
                                IF args.nonbondedMethod = "CutoffNonPeriodic"
                                THEN args.nonbondedCutoff ELSE @]
                    /\ pc' = "nbparticles"
                    /\ UNCHANGED error
            /\ UNCHANGED <<system, args>>
       ELSE LET b == getBoxBetaAndDimensions
                cutoff == IF ~args.nonbondedCutoff.some
                          THEN AutomaticCutoff(b.val) ELSE args.nonbondedCutoff
            IN  IF b.err # NoErr
                THEN Fail(b.err) /\ UNCHANGED <<system, forces, args>>
                ELSE /\ system' = [system EXCEPT !.box = SubSeq(b.val, 2, 4)]
                     /\ args' = [args EXCEPT !.nonbondedCutoff = cutoff]
                     /\ IF NonbondedMethodErr # NoErr
                        THEN /\ Fail(NonbondedMethodErr)
                             /\ forces' = [forces EXCEPT !.NonbondedCutoff = cutoff]
                        ELSE /\ forces' = [forces EXCEPT
                                     !.NonbondedCutoff = cutoff,
                                     !.NonbondedMethod = args.nonbondedMethod]
                             /\ pc' = "nbparticles"
                             /\ UNCHANGED error
    /\ UNCHANGED <<loaderVars, excludedAtomPairs, readers, load, crd>>

\* Add per-particle nonbonded parameters: zip stops at the shorter list.
AddNonbondedParticles ==
    /\ pc = "nbparticles"
    /\ LET q == getCharges(cache)
           t == CallIf(q.out = "returned", getNonbondTerms(q.cache), q.cache)
       IN  /\ Use(t.cache, q.ran \cup t.ran)
           /\ IF q.out = "raised" THEN Fail(q.err) /\ UNCHANGED forces
              ELSE IF t.out = "raised" THEN Fail(t.err) /\ UNCHANGED forces
              ELSE /\ forces' = [forces EXCEPT !.NonbondedParticles =
                                    [p \in 1..Min(Len(q.val.value), Len(t.val)) |->
                                        << q.val.value[p],
                                           [k |-> "sigma", rVdw |-> t.val[p][1]],
                                           t.val[p][2] >>]]
                   /\ pc' = "exceptions14"
                   /\ UNCHANGED error
    /\ UNCHANGED <<args, system, excludedAtomPairs, readers, load, crd>>

\* min(a, b) of two pairs: the smaller in lexicographic order.
TupleMin(a, b) ==
    IF a[1] < b[1] \/ (a[1] = b[1] /\ a[2] <= b[2]) THEN a ELSE b

\* A variant of NormalPair that keeps the atoms in the order they are listed.
NormalPairAsListed(iAtom, jAtom) == <<iAtom, jAtom>>

\* min((iAtom, jAtom), (jAtom, iAtom)): the key of a pair in excludedAtomPairs.
NormalPair(iAtom, jAtom) == TupleMin(<<iAtom, jAtom>>, <<jAtom, iAtom>>)

FourteenException(e) ==
    [ kind |-> "1-4", iAtom |-> e[1], jAtom |-> e[2],
      chargeProd |-> [k |-> "quotient", a |-> e[3], b |-> args.scee],
      sigma |-> [k |-> "sigma14", rMin |-> e[4]],
      epsilon |-> [k |-> "quotient", a |-> e[5], b |-> args.scnb] ]

\* force.addException(iAtom, jAtom, 0.0, 1.0, 0.0)
PlainExclusion(iAtom, jAtom) ==
    [ kind |-> "exclusion", iAtom |-> iAtom, jAtom |-> jAtom,
      chargeProd |-> Rat(0, 1), sigma |-> Rat(1, 1), epsilon |-> Rat(0, 1) ]

\* Add 1-4 Interactions.  A division by a zero scale factor raises in the
\* first iteration, before anything is added.
Add14Interactions ==
    /\ pc = "exceptions14"
    /\ LET f == get14Interactions(cache)
           zero == f.val # <<>> /\ (args.scee = 0 \/ args.scnb = 0)
       IN  /\ Use(f.cache, f.ran)
           /\ IF f.out = "raised"
              THEN Fail(f.err) /\ UNCHANGED <<forces, excludedAtomPairs>>
              ELSE IF zero
              THEN Fail("ZeroDivisionError") /\ excludedAtomPairs' = {} /\ UNCHANGED forces
              ELSE /\ forces' = [forces EXCEPT !.NonbondedExceptions =
                                    [e \in 1..Len(f.val) |-> FourteenException(f.val[e])]]
                   /\ excludedAtomPairs' =
                          {NormalPair(f.val[e][1], f.val[e][2]) : e \in 1..Len(f.val)}
                   /\ pc' = "exclusions"
                   /\ UNCHANGED error
    /\ UNCHANGED <<args, system, readers, load, crd>>

\* The exclusions of atom iAtom that are not skipped, in order.
RECURSIVE ExclusionsOf(_, _)
ExclusionsOf(iAtom, atomList) ==
    IF atomList = <<>> THEN <<>>
    ELSE (IF NormalPair(iAtom, Head(atomList)) \in excludedAtomPairs
          THEN <<>> ELSE <<PlainExclusion(iAtom, Head(atomList))>>)
         \o ExclusionsOf(iAtom, Tail(atomList))

\* Add Excluded Atoms, then system.addForce(force).
AddExcludedAtoms ==
    /\ pc = "exclusions"
    /\ LET x == getExcludedAtoms(cache)
           n == getNumAtoms
           stop == IF x.out = "raised" THEN 0
                   ELSE FirstBad(n, LAMBDA iAtom : ~InRange(x.val, iAtom))
           added == Flatten([k \in 1..stop |-> ExclusionsOf(k - 1, x.val[k])])
       IN  /\ Use(x.cache, x.ran)
           /\ IF x.out = "raised" THEN Fail(x.err) /\ UNCHANGED <<forces, system>>
              ELSE /\ forces' = [forces EXCEPT !.NonbondedExceptions = @ \o added]
                   /\ IF stop < n THEN Fail(IndexError) /\ UNCHANGED system
                      ELSE /\ system' = [system EXCEPT !.forces = Append(@, "NonbondedForce")]
                           /\ pc' = "gb"
                           /\ UNCHANGED error
    /\ UNCHANGED <<args, excludedAtomPairs, readers, load, crd>>

\* What gb.setNonbondedMethod raises, if anything.
GBMethodErr ==
    IF args.nonbondedMethod \in {"NoCutoff", "CutoffNonPeriodic", "CutoffPeriodic"}
    THEN NoErr ELSE "Illegal nonbonded method for use with GBSA"

\* Add GBSA-OBC model, and return system.
AddGBSA ==
    /\ pc = "gb"
    /\ IF args.gbmodel # "OBC"
       THEN /\ pc' = "done"
            /\ UNCHANGED <<loaderVars, system, forces, error>>
       ELSE LET q == getCharges(cache)
                g == CallIf(q.out = "returned", getGBSA_OBC(q.cache), q.cache)
                n == getNumAtoms
                stop == IF q.out = "raised" \/ g.out = "raised" THEN 0
                        ELSE FirstBad(n, LAMBDA iAtom :
                                ~InRange(q.val.value, iAtom) \/ ~InRange(g.val, iAtom))
            IN  /\ Use(g.cache, q.ran \cup g.ran)
                /\ IF q.out = "raised" THEN Fail(q.err) /\ UNCHANGED <<system, forces>>
                   ELSE IF g.out = "raised" THEN Fail(g.err) /\ UNCHANGED <<system, forces>>
                   ELSE IF stop < n THEN Fail(IndexError) /\ UNCHANGED <<system, forces>>
                   ELSE /\ system' = [system EXCEPT !.forces = Append(@, "GBSAOBCForce")]
                        /\ forces' = [forces EXCEPT
                               !.GBSAOBCForce = [p \in 1..n |->
                                   <<q.val.value[p], g.val[p][1], g.val[p][2]>>],
                               !.GBMethod = IF GBMethodErr = NoErr
                                            THEN args.nonbondedMethod ELSE @,
                               !.GBCutoff = IF args.nonbondedMethod \in
                                                 {"CutoffNonPeriodic", "CutoffPeriodic"}
                                            THEN args.nonbondedCutoff ELSE @]
                        /\ IF GBMethodErr # NoErr THEN Fail(GBMethodErr)
                           ELSE pc' = "done" /\ UNCHANGED error
    /\ UNCHANGED <<args, excludedAtomPairs, readers, load, crd>>

-----------------------------------------------------------------------------
(* Specification of readAmberSystem: one call, on a loader nobody has used. *)

\* Every setting of the three flags readAmberSystem checks, with and without
\* a BOX_DIMENSIONS section.
FlagFiles ==
    { [BaseFile EXCEPT !.POINTERS = Pointers(MaxAtoms, ifpert, ifbox, ifcap),
                       !.FLAGS = @ \cup box] :
        ifpert \in 0..1, ifbox \in 0..2, ifcap \in 0..1,
        box \in {{}, {"BOX_DIMENSIONS"}} }

FlagArgs ==
    { [DefaultArgs EXCEPT !.source = source, !.nonbondedMethod = method,
                          !.nonbondedCutoff = cutoff, !.gbmodel = gbmodel] :
        source \in {"filename", "loader", "neither", "both"},
        method \in {"NoCutoff", "CutoffNonPeriodic", "CutoffPeriodic", "Ewald", "PME", "LJPME"},
        cutoff \in {None, Some(1000)},
        gbmodel \in {"None", "OBC"} }

\* Bonds of every type, with up to MaxRecs angles over them.
BondAngleFiles ==
    { [f EXCEPT !.ANGLES_INC_HYDROGEN = Flatten([k \in 1..n |-> AngleRec(k, 1)])] :
        f \in BondFiles, n \in 0..MaxRecs }

ShakeArgs ==
    { [DefaultArgs EXCEPT !.shake = shake, !.flexibleConstraints = flexible] :
        shake \in {"None", "h-bonds", "all-bonds", "h-angles"}, flexible \in BOOLEAN }

\* The atoms other than iAtom that an exclusion list of the given style names
\* for it: the higher ones (as AMBER writes them), the lower ones, or all.
ExcludedBy(style, iAtom) ==
    CASE style = "higher" -> {j \in Atoms : j > iAtom}
      [] style = "lower" -> {j \in Atoms : j < iAtom}
      [] OTHER -> Atoms \ {iAtom}

\* The tokens of atom iAtom in EXCLUDED_ATOMS_LIST, ascending; an atom that
\* excludes nothing has the one token 0.
ExcludedTokens(style, iAtom) ==
    LET S == ExcludedBy(style, iAtom)
    IN  IF S = {} THEN <<0>>
        ELSE [p \in 1..Cardinality(S) |->
                 1 + CHOOSE x \in S : Cardinality({y \in S : y < x}) = p - 1]

\* A file with the exclusion lists of a style.
WithExclusions(f, style) ==
    [f EXCEPT
        !.NUMBER_EXCLUDED_ATOMS = [i \in 1..MaxAtoms |-> Len(ExcludedTokens(style, i - 1))],
        !.EXCLUDED_ATOMS_LIST = Flatten([i \in 1..MaxAtoms |-> ExcludedTokens(style, i - 1)])]

ExclusionStyles == {"higher", "lower", "all"}

\* Dihedrals whose end atoms come in either order, with exclusion lists of
\* each style.
ExceptionFiles ==
    { WithExclusions([BaseFile EXCEPT !.DIHEDRALS_INC_HYDROGEN = b.withH,
                                      !.DIHEDRALS_WITHOUT_HYDROGEN = b.noH], style) :
        b \in BondedSections(LAMBDA k, f : DihedralRec(k, f, 1, 1 + (k % 2)), {1, -1}),
        style \in ExclusionStyles }

ScaleArgs ==
    { [DefaultArgs EXCEPT !.scee = scale[1], !.scnb = scale[2]] :
        scale \in {<<1200, 2000>>, <<1000, 1000>>, <<0, 2000>>, <<1200, 0>>} }

InitReadAmberSystem ==
    \/ \E a \in FlagArgs : InitLoader(FlagFiles) /\ InitSystemWith(a)
    \/ \E a \in ShakeArgs : InitLoader(BondAngleFiles) /\ InitSystemWith(a)
    \/ \E a \in ScaleArgs : InitLoader(ExceptionFiles) /\ InitSystemWith(a)

NextReadAmberSystem ==
    \/ CreateSystem
    \/ AddParticles
    \/ AddConstraints
    \/ AddBonds
    \/ AddAngles
    \/ AddTorsions
    \/ SetNonbondedMethod
    \/ AddNonbondedParticles
    \/ Add14Interactions
    \/ AddExcludedAtoms
    \/ AddGBSA

SpecReadAmberSystem == InitReadAmberSystem /\ [][NextReadAmberSystem]_vars

-----------------------------------------------------------------------------
(* Unsupported flags (C5). *)

UnsupportedMessages ==
    { "CAP option not currently supported",
      "perturbation not currently supported",
      "only standard periodic boxes are currently supported" }

FlagSet(pointerLabel, limit) == raw.POINTERS[PointerIndex(pointerLabel) + 1] > limit

\* C5: a call of readAmberSystem with one source whose pointer table has
\* IFCAP > 0, IFPERT > 0 or IFBOX > 1 ends, as soon as it has moved, in one
\* of the three "not supported" errors, and at that point no system has been
\* created: no particle, constraint or force has been added to anything.
C5_UnsupportedFlagsRaiseFirst ==
    ( /\ ArgumentError = NoErr
      /\ FlagSet("IFCAP", 0) \/ FlagSet("IFPERT", 0) \/ FlagSet("IFBOX", 1)
      /\ pc # "idle" )
    => /\ pc = "error"
       /\ error \in UnsupportedMessages
       /\ system = NoSystem
       /\ forces = NoForces

\* A truncated-octahedron box, and no other flag, has made the call raise.
C5_Witness ==
    /\ pc = "error"
    /\ args.source = "loader"
    /\ FlagSet("IFBOX", 1) /\ ~FlagSet("IFCAP", 0) /\ ~FlagSet("IFPERT", 0)
    /\ error = "only standard periodic boxes are currently supported"
    /\ system = NoSystem

-----------------------------------------------------------------------------
(* 1-4 exceptions and exclusions (C1). *)

Emitted(kind) ==
    { {forces.NonbondedExceptions[e].iAtom, forces.NonbondedExceptions[e].jAtom} :
        e \in {x \in 1..Len(forces.NonbondedExceptions) :
                  forces.NonbondedExceptions[x].kind = kind} }

\* C1: at every point of readAmberSystem, no unordered pair of atoms has been
\* emitted both as a 1-4 exception and as a plain exclusion.
C1_NoPairInBoth == Emitted("1-4") \cap Emitted("exclusion") = {}

\* The call has returned; a dihedral gave the 1-4 pair (iAtom, lAtom) with
\* iAtom > lAtom, both atoms list each other as excluded, and some other
\* pair was emitted as a plain exclusion.
C1_Witness ==
    /\ pc = "done"
    /\ cache._excludedAtoms.set
    /\ \E e \in 1..Len(forces.NonbondedExceptions) :
          LET x == forces.NonbondedExceptions[e]
          IN  /\ x.kind = "1-4"
              /\ x.iAtom > x.jAtom
              /\ \E p \in 1..Len(cache._excludedAtoms.val[x.iAtom + 1]) :
                    cache._excludedAtoms.val[x.iAtom + 1][p] = x.jAtom
              /\ \E p \in 1..Len(cache._excludedAtoms.val[x.jAtom + 1]) :
                    cache._excludedAtoms.val[x.jAtom + 1][p] = x.iAtom
    /\ Emitted("exclusion") # {}

-----------------------------------------------------------------------------
(* Bond lists and harmonic bonds (C6). *)

\* The records of a bond section, three tokens each.
BondRecords(section) == [r \in 1..(Len(section) \div 3) |-> SubSeq(section, 3 * r - 2, 3 * r)]

\* The entry of a bond list for a record, with the force constant scaled.
ListEntry(rec, scale) ==
    << rec[1] \div 3, rec[2] \div 3,
       scale * raw.BOND_FORCE_CONSTANT[rec[3]], raw.BOND_EQUIL_VALUE[rec[3]] >>

ListOf(section, scale) ==
    [r \in 1..Len(BondRecords(section)) |-> ListEntry(BondRecords(section)[r], scale)]

BondListsHold(scale) ==
    /\ cache._bondListWithH.set
          => cache._bondListWithH.val = ListOf(raw.BONDS_INC_HYDROGEN, scale)
    /\ cache._bondListNoH.set
          => cache._bondListNoH.val = ListOf(raw.BONDS_WITHOUT_HYDROGEN, scale)

\* C6 as stated: the bond lists hold twice the stored force constant.
C6_ListHoldsDoubled == BondListsHold(2)

\* The bonds of a section in the harmonic bond force: (i, j, length, 2k).
ForceOf(section) ==
    [r \in 1..Len(BondRecords(section)) |->
        LET e == ListEntry(BondRecords(section)[r], 2) IN <<e[1], e[2], e[4], e[3]>>]

\* C6: the bond lists hold, in record order, one entry (i, j, k, length) for
\* every record (3i, 3j, t), with k = BOND_FORCE_CONSTANT[t-1] as stored and
\* length = BOND_EQUIL_VALUE[t-1]; the constant is doubled where
\* readAmberSystem adds the bond to the harmonic bond force.
C6_StoredInListDoubledInForce ==
    /\ BondListsHold(1)
    /\ "HarmonicBondForce" \in {system.forces[f] : f \in 1..Len(system.forces)}
          => forces.HarmonicBondForce =
                (IF args.flexibleConstraints \/ ~ShakeH
                 THEN ForceOf(raw.BONDS_INC_HYDROGEN) ELSE <<>>)
                \o (IF args.flexibleConstraints \/ ~ShakeAll
                    THEN ForceOf(raw.BONDS_WITHOUT_HYDROGEN) ELSE <<>>)

\* The record (0, 3, 1) with stored constant 300 and length 1.5.
C6_Witness ==
    /\ pc = "done"
    /\ raw.BONDS_WITHOUT_HYDROGEN = <<0, 3, 1>>
    /\ raw.BONDS_INC_HYDROGEN = <<>>
    /\ cache._bondListNoH.val = << <<0, 1, 300000, 1500>> >>
    /\ forces.HarmonicBondForce = << <<0, 1, 1500, 600000>> >>

-----------------------------------------------------------------------------
(* Two readers of one loader.  The accessors hold no lock, so the statements
   of two calls interleave; one action is one statement of one reader (the
   body of a loop counts as one statement: all but its last statement, the
   append to the shared list, work on locals of the reader). *)

Readers == {1, 2}
Shared == {"getMasses", "getExcludedAtoms"}

IdleReader == [acc |-> "none", pc |-> "idle", ii |-> 0, ret |-> None]

\* self._massList = [] and self._excludedAtoms = []
EmptyList(acc) == IF acc = "getMasses" THEN Quantity(<<>>, NoUnit) ELSE <<>>

\* What iteration ii of the loop of acc appends, and whether it raises first.
LoopItem(acc, ii) ==
    IF acc = "getMasses" THEN At(raw.MASS, ii)
    ELSE ExcludedAtomList(raw.NUMBER_EXCLUDED_ATOMS, raw.EXCLUDED_ATOMS_LIST, ii)
LoopItemErr(acc, ii) ==
    IF acc = "getMasses" THEN ~InRange(raw.MASS, ii)
    ELSE ~InRange(raw.NUMBER_EXCLUDED_ATOMS, ii)

\* self._attr.append(x), on whatever the attribute holds by now.
Appended(acc, v, x) ==
    IF acc = "getMasses" THEN [v EXCEPT !.value = Append(@, x)] ELSE Append(v, x)

Move(r, to) == readers' = [readers EXCEPT ![r].pc = to]

\* A reader calls an accessor.
ReaderCall(r, acc) ==
    /\ readers[r].pc = "idle"
    /\ readers' = [readers EXCEPT ![r] = [IdleReader EXCEPT !.acc = acc, !.pc = "try"]]
    /\ called' = [called EXCEPT ![acc] = @ + 1]
    /\ UNCHANGED <<raw, cache, residuePointerDict, runs, raised, last, systemVars, load, crd>>

\* try: return self._attr / except AttributeError: pass
ReaderTry(r) ==
    /\ readers[r].pc = "try"
    /\ IF cache[AttrOf[readers[r].acc]].set
       THEN readers' = [readers EXCEPT ![r].pc = "done",
                                       ![r].ret = Some(cache[AttrOf[readers[r].acc]].val)]
       ELSE Move(r, "assign")
    /\ UNCHANGED <<loaderVars, systemVars, load, crd>>

\* self._attr = []: the derivation begins.
ReaderAssign(r) ==
    /\ readers[r].pc = "assign"
    /\ cache' = [cache EXCEPT ![AttrOf[readers[r].acc]] = Stored(EmptyList(readers[r].acc))]
    /\ runs' = [runs EXCEPT ![readers[r].acc] = @ + 1]
    /\ readers' = [readers EXCEPT ![r].pc = "loop", ![r].ii = 0]
    /\ UNCHANGED <<raw, residuePointerDict, called, raised, last, systemVars, load, crd>>

\* One iteration of the loop over range(self.getNumAtoms()), or its end.
\* Appending a bare float to a list that the other reader has wrapped in a
\* Quantity is up to the units library: it appends or it raises TypeError.
ReaderLoop(r) ==
    /\ readers[r].pc = "loop"
    /\ LET acc == readers[r].acc
           attr == AttrOf[acc]
           ii == readers[r].ii
       IN  IF ii >= getNumAtoms
           THEN /\ Move(r, IF acc = "getMasses" THEN "wrap" ELSE "return")
                /\ UNCHANGED <<cache, raised>>
           ELSE IF LoopItemErr(acc, ii)
           THEN /\ readers' = [readers EXCEPT ![r].pc = "raised"]
                /\ raised' = raised \cup {acc}
                /\ UNCHANGED cache
           ELSE \/ /\ cache' = [cache EXCEPT ![attr].val =
                                   Appended(acc, @, LoopItem(acc, ii))]
                   /\ readers' = [readers EXCEPT ![r].ii = ii + 1]
                   /\ UNCHANGED raised
                \/ /\ acc = "getMasses"
                   /\ cache[attr].val.unit # NoUnit
                   /\ readers' = [readers EXCEPT ![r].pc = "raised"]
                   /\ raised' = raised \cup {acc}
                   /\ UNCHANGED cache
    /\ UNCHANGED <<raw, residuePointerDict, called, runs, last, systemVars, load, crd>>

\* self._massList = units.Quantity(self._massList, units.amu)
ReaderWrap(r) ==
    /\ readers[r].pc = "wrap"
    /\ cache' = [cache EXCEPT !._massList.val = Quantity(@.value, "amu")]
    /\ Move(r, "return")
    /\ UNCHANGED <<raw, residuePointerDict, called, runs, raised, last, systemVars, load, crd>>

\* return self._attr
ReaderReturn(r) ==
    /\ readers[r].pc = "return"
    /\ readers' = [readers EXCEPT ![r].pc = "done",
                                  ![r].ret = Some(cache[AttrOf[readers[r].acc]].val)]
    /\ UNCHANGED <<loaderVars, systemVars, load, crd>>

\* Sound files with exclusion lists of each style.
SharedFiles == {WithExclusions(BaseFile, style) : style \in ExclusionStyles}

InitReaders ==
    /\ InitFresh(SharedFiles)
    /\ load = NoLoad
    /\ InitSystem
    /\ readers = [r \in Readers |-> IdleReader]

NextReaders ==
    \/ \E r \in Readers, acc \in Shared : ReaderCall(r, acc)
    \/ \E r \in Readers : ReaderTry(r)
    \/ \E r \in Readers : ReaderAssign(r)
    \/ \E r \in Readers : ReaderLoop(r)
    \/ \E r \in Readers : ReaderWrap(r)
    \/ \E r \in Readers : ReaderReturn(r)

SpecReaders == InitReaders /\ [][NextReaders]_vars

-----------------------------------------------------------------------------
(* Concurrent first access (C2). *)

\* What a call of the accessor returns when nothing else runs.
Complete(acc) ==
    IF acc = "getMasses" THEN getMasses(EmptyCache).val ELSE getExcludedAtoms(EmptyCache).val

\* C2 as stated: whatever the interleaving of two readers, the derivation of
\* a collection has begun at most once, and a reader that has returned was
\* handed the complete collection.
C2_ComputeOnceNeverPartial ==
    /\ \A acc \in Shared : runs[acc] <= 1
    /\ \A r \in Readers :
          readers[r].pc = "done" => readers[r].ret.v = Complete(readers[r].acc)

-----------------------------------------------------------------------------
(* Bonded records with a damaged atom index (C11, C17). *)

\* An atom index of a record made negative, moved off the multiples of 3, or
\* both.
Damaged(x, how) ==
    CASE how = "negative" -> IF x > 0 THEN -x ELSE -3
      [] how = "offset" -> IF x >= 0 THEN x + 1 ELSE x - 1
      [] OTHER -> IF x >= 0 THEN -(x + 1) ELSE x - 1

\* The positions (from 1) of the atom indexes in a section of records of
\* width tokens, the last of which is the type index.
AtomPositions(section, width) == {p \in 1..Len(section) : p % width # 0}

BondedSectionNames ==
    [ BONDS_INC_HYDROGEN |-> 3, BONDS_WITHOUT_HYDROGEN |-> 3,
      ANGLES_INC_HYDROGEN |-> 4, ANGLES_WITHOUT_HYDROGEN |-> 4,
      DIHEDRALS_INC_HYDROGEN |-> 5, DIHEDRALS_WITHOUT_HYDROGEN |-> 5 ]

\* A file with MaxRecs records in each of the six bonded sections, some of
\* the dihedrals with a negative third or fourth index.
BondedFile ==
    [BaseFile EXCEPT
        !.BONDS_INC_HYDROGEN = Flatten([k \in 1..MaxRecs |-> BondRec(k, 1)]),
        !.BONDS_WITHOUT_HYDROGEN = Flatten([k \in 1..MaxRecs |-> BondRec(k + 1, 2)]),
        !.ANGLES_INC_HYDROGEN = Flatten([k \in 1..MaxRecs |-> AngleRec(k, 1)]),
        !.ANGLES_WITHOUT_HYDROGEN = Flatten([k \in 1..MaxRecs |-> AngleRec(k + 1, 2)]),
        !.DIHEDRALS_INC_HYDROGEN = Flatten([k \in 1..MaxRecs |-> DihedralRec(k, 1, -1, 1)]),
        !.DIHEDRALS_WITHOUT_HYDROGEN =
            Flatten([k \in 1..MaxRecs |-> DihedralRec(k + 1, -1, 1, 2)])]

\* BondedFile, and BondedFile with one atom index of one section damaged.
DamagedFiles ==
    {BondedFile} \cup
    UNION { { [BondedFile EXCEPT ![name][p] = Damaged(@, how)] :
                p \in AtomPositions(BondedFile[name], BondedSectionNames[name]),
                how \in {"negative", "offset", "negative offset"} } :
            name \in DOMAIN BondedSectionNames }

InitBonded == InitLoader(DamagedFiles) /\ InitSystem

NextBonded ==
    \/ GetBondsWithH
    \/ GetBondsNoH
    \/ GetAngles
    \/ GetDihedrals

SpecBonded == InitBonded /\ [][NextBonded]_vars


\* The records of the two sections an accessor reads, with-hydrogen records
\* first (the bond accessors read one section each).
SectionsOf(acc) ==
    CASE acc = "getBondsWithH" -> raw.BONDS_INC_HYDROGEN
      [] acc = "getBondsNoH" -> raw.BONDS_WITHOUT_HYDROGEN
      [] acc = "getAngles" -> raw.ANGLES_INC_HYDROGEN \o raw.ANGLES_WITHOUT_HYDROGEN
      [] OTHER -> raw.DIHEDRALS_INC_HYDROGEN \o raw.DIHEDRALS_WITHOUT_HYDROGEN

WidthOf(acc) ==
    CASE acc \in {"getBondsWithH", "getBondsNoH"} -> 3
      [] acc = "getAngles" -> 4
      [] OTHER -> 5

RecordsOf(acc) ==
    [r \in 1..(Len(SectionsOf(acc)) \div WidthOf(acc)) |->
        SubSeq(SectionsOf(acc), WidthOf(acc) * (r - 1) + 1, WidthOf(acc) * r)]

BondedAccessors == {"getBondsWithH", "getBondsNoH", "getAngles", "getDihedrals"}

NegativeMessages ==
    [ getBondsWithH |-> NegBond, getBondsNoH |-> NegBond,
      getAngles |-> NegAngle, getDihedrals |-> NegDihedral ]

\* The call on record is the one call of acc so far: the call that derives.
FirstCallOf(acc) == last.acc = acc /\ called[acc] = 1

\* C11: the first call of a bond, angle or dihedral accessor on a file in
\* which a record of its sections has a negative first or second raw index
\* raises the "negative atom pointers" error; and when no record of the
\* dihedral sections has one, getDihedrals returns an entry for every
\* record, whose third and fourth atoms are |raw3| / 3 and |raw4| / 3 also
\* where raw3 or raw4 is negative.
C11_NegativeIndexes ==
    /\ \A acc \in BondedAccessors :
          ( /\ FirstCallOf(acc)
            /\ \E r \in 1..Len(RecordsOf(acc)) :
                  RecordsOf(acc)[r][1] < 0 \/ RecordsOf(acc)[r][2] < 0 )
          => last.out = "raised" /\ last.err = NegativeMessages[acc]
    /\ ( /\ FirstCallOf("getDihedrals")
         /\ \A r \in 1..Len(RecordsOf("getDihedrals")) :
               RecordsOf("getDihedrals")[r][1] >= 0 /\ RecordsOf("getDihedrals")[r][2] >= 0 )
       => /\ last.out = "returned"
          /\ Len(last.val) = Len(RecordsOf("getDihedrals"))
          /\ \A r \in 1..Len(last.val) : \A a \in 3..4 :
                LET x == RecordsOf("getDihedrals")[r][a]
                IN  last.val[r][a] = (IF x < 0 THEN 0 - x ELSE x) \div 3

\* getBondsNoH has raised for a record whose second raw index is negative,
\* and getDihedrals has then returned the atoms of records whose third or
\* fourth raw index is negative.
C11_Witness ==
    /\ FirstCallOf("getDihedrals")
    /\ last.out = "returned"
    /\ \E r \in 1..Len(last.val) :
          RecordsOf("getDihedrals")[r][3] < 0 /\ last.val[r][3] > 0
    /\ \E r \in 1..Len(last.val) :
          RecordsOf("getDihedrals")[r][4] < 0 /\ last.val[r][4] > 0
    /\ "getBondsNoH" \in raised
    /\ \E r \in 1..Len(RecordsOf("getBondsNoH")) : RecordsOf("getBondsNoH")[r][2] < 0

-----------------------------------------------------------------------------
(* PrmtopLoader.__init__: the pass over the lines of a prmtop file.  A line
   is a record; its text is a sequence of one-character strings. *)

Blank == " "

VersionLine(rest) == [kind |-> "VERSION", flag |-> "", width |-> 0, text |-> rest]
FlagLine(flag) == [kind |-> "FLAG", flag |-> flag, width |-> 0, text |-> <<>>]
\* A width of 0 stands for a format FORMAT_RE_PATTERN does not match, a
\* negative one for a tag without parentheses.
FormatLine(width) == [kind |-> "FORMAT", flag |-> "", width |-> width, text |-> <<>>]
DataLine(text) == [kind |-> "DATA", flag |-> "", width |-> 0, text |-> text]

ValueError == "ValueError"
AttributeError == "AttributeError"

\* line.rstrip(): the text without its trailing blanks (and newline).
RECURSIVE Rstrip(_)
Rstrip(text) ==
    IF text # <<>> /\ text[Len(text)] = Blank THEN Rstrip(SubSeq(text, 1, Len(text) - 1))
    ELSE text

\* A variant of FieldItems that drops a field made of blanks only.
FieldItemsTrimmed(text, iLength) ==
    LET stripped == Rstrip(text)
        fields == [n \in 1..RangeCount(Len(text) + 1, iLength) |->
                      Slice(stripped, (n - 1) * iLength, n * iLength)]
    IN  SelectSeq(fields, LAMBDA item : Rstrip(item) # <<>>)

\* The items the loop over range(0, len(line), iLength) appends: the slices
\* of line.rstrip() that are not the empty string.  len(line) counts the
\* newline.
FieldItems(text, iLength) ==
    LET stripped == Rstrip(text)
        fields == [n \in 1..RangeCount(Len(text) + 1, iLength) |->
                      Slice(stripped, (n - 1) * iLength, n * iLength)]
    IN  SelectSeq(fields, LAMBDA item : item # <<>>)

\* self._raw_data['TITLE'] while it is still the empty list.
NoTitle == [some |-> FALSE, v |-> <<>>]

\* The state of the pass before its first line.
StartLoad(file) ==
    [ pc |-> "reading", file |-> file, next |-> 1, err |-> NoErr,
      _prmtopVersion |-> None, _flags |-> <<>>,
      _raw_format |-> [f \in {} |-> 0], _raw_data |-> [f \in {} |-> <<>>],
      title |-> NoTitle ]

CurrentLine == load.file[load.next]
Reading(kind) ==
    /\ load.pc = "reading"
    /\ load.next <= Len(load.file)
    /\ CurrentLine.kind = kind

\* The line is done, or the constructor leaves by an exception.
LoadStep(l) == load' = [l EXCEPT !.next = @ + 1]
LoadFail(e) == load' = [load EXCEPT !.pc = "raised", !.err = e]

OtherVars == <<loaderVars, systemVars, readers, crd>>

\* if line.startswith('%VERSION')
ReadVersion ==
    /\ Reading("VERSION")
    /\ IF CurrentLine.text = <<>> THEN LoadFail(ValueError)
       ELSE LoadStep([load EXCEPT !._prmtopVersion = Some(CurrentLine.text)])
    /\ UNCHANGED OtherVars

\* elif line.startswith('%FLAG')
ReadFlag ==
    /\ Reading("FLAG")
    /\ LET flag == CurrentLine.flag
       IN  IF flag = "" THEN LoadFail(ValueError)
           ELSE LoadStep([load EXCEPT
                    !._flags = Append(@, flag),
                    !._raw_data = [f \in DOMAIN @ \cup {flag} |->
                                      IF f = flag THEN <<>> ELSE @[f]],
                    !.title = IF flag = "TITLE" THEN NoTitle ELSE @])
    /\ UNCHANGED OtherVars

\* elif line.startswith('%FORMAT')
ReadFormat ==
    /\ Reading("FORMAT")
    /\ IF CurrentLine.width < 0 THEN LoadFail(ValueError)
       ELSE IF load._flags = <<>> THEN LoadFail(IndexError)
       ELSE LET flag == load._flags[Len(load._flags)]
            IN  LoadStep([load EXCEPT
                    !._raw_format = [f \in DOMAIN @ \cup {flag} |->
                                        IF f = flag THEN CurrentLine.width ELSE @[f]]])
    /\ UNCHANGED OtherVars

\* A variant of TitleExpected that does not ask for a %FLAG tag.
TitleExpectedUnflagged == load.title.v = <<>>

\* self._flags and 'TITLE'==self._flags[-1] and not self._raw_data['TITLE']
TitleExpected ==
    /\ load._flags # <<>>
    /\ load._flags[Len(load._flags)] = "TITLE"
    /\ load.title.v = <<>>

\* The title line: self._raw_data['TITLE'] = line.rstrip()
ReadTitle ==
    /\ Reading("DATA")
    /\ TitleExpected
    /\ LoadStep([load EXCEPT !.title = Some(Rstrip(CurrentLine.text))])
    /\ UNCHANGED OtherVars

\* else: a data line of the section of the last %FLAG tag.
ReadData ==
    /\ Reading("DATA")
    /\ ~TitleExpected
    /\ IF load._flags = <<>> THEN LoadFail(IndexError)
       ELSE LET flag == load._flags[Len(load._flags)]
                items == FieldItems(CurrentLine.text, load._raw_format[flag])
            IN  IF flag \notin DOMAIN load._raw_format THEN LoadFail(KeyError)
                ELSE IF load._raw_format[flag] = 0 THEN LoadFail(AttributeError)
                ELSE IF flag = "TITLE" /\ items # <<>> THEN LoadFail(AttributeError)
                ELSE LoadStep([load EXCEPT !._raw_data[flag] = @ \o items])
    /\ UNCHANGED OtherVars

\* fIn.close(): the constructor returns.
CloseFile ==
    /\ load.pc = "reading"
    /\ load.next > Len(load.file)
    /\ load' = [load EXCEPT !.pc = "closed"]
    /\ UNCHANGED OtherVars


\* Every text of at most MaxLine characters, each a letter or a blank.
RECURSIVE Texts(_)
Texts(n) ==
    IF n = 0 THEN {<<>>}
    ELSE LET shorter == Texts(n - 1)
         IN  shorter \cup {Append(t, ch) : t \in {u \in shorter : Len(u) = n - 1},
                                           ch \in {"a", Blank}}

Widths == 1..MaxWidth

\* A title, then two sections: the first of two data lines of any text, the
\* second of one line.
SectionedFiles ==
    { << VersionLine(<<"1">>), FlagLine("TITLE"), FormatLine(MaxWidth), DataLine(<<"t">>),
         FlagLine("ATOM_NAME"), FormatLine(w), DataLine(t1), DataLine(t2),
         FlagLine("CHARGE"), FormatLine(1), DataLine(<<"a", "a">>) >> :
        w \in Widths, t1 \in Texts(MaxLine), t2 \in Texts(MaxLine) }

\* A data line ahead of the first %FLAG tag, at the top of the file or after
\* the %VERSION tag.
HeadlessFiles ==
    UNION { { <<DataLine(t), FlagLine("CHARGE"), FormatLine(w), DataLine(<<"a">>)>>,
              <<VersionLine(<<"1">>), DataLine(t), FlagLine("CHARGE"), FormatLine(w),
                DataLine(<<"a">>)>> } :
            t \in Texts(MaxLine), w \in Widths }

\* Tags that are out of place or cut short.
OddFiles ==
    { <<FormatLine(1), FlagLine("CHARGE"), DataLine(<<"a">>)>>,
      <<FlagLine("CHARGE"), DataLine(<<"a">>)>>,
      <<FlagLine("CHARGE"), FormatLine(0), DataLine(<<"a">>)>>,
      <<FlagLine("CHARGE"), FormatLine(-1), DataLine(<<"a">>)>>,
      <<FlagLine(""), FormatLine(1)>>,
      <<VersionLine(<<>>), FlagLine("CHARGE")>>,
      <<FlagLine("TITLE"), FormatLine(1), DataLine(<<>>), DataLine(<<"t">>), DataLine(<<"u">>)>>,
      <<FlagLine("TITLE"), FormatLine(1), DataLine(<<"t">>), DataLine(<<Blank>>)>>,
      <<FlagLine("CHARGE"), FormatLine(1), DataLine(<<"a">>),
        FlagLine("CHARGE"), FormatLine(1), DataLine(<<"b">>)>> }

InitLoad ==
    /\ InitLoaded({BaseFile})
    /\ InitSystem
    /\ \E file \in SectionedFiles \cup HeadlessFiles \cup OddFiles : load = StartLoad(file)

NextLoad ==
    \/ ReadVersion
    \/ ReadFlag
    \/ ReadFormat
    \/ ReadTitle
    \/ ReadData
    \/ CloseFile

SpecLoad == InitLoad /\ [][NextLoad]_vars

-----------------------------------------------------------------------------
(* Data ahead of the first %FLAG tag (C12). *)

\* Line i of the file is a data line with no %FLAG tag before it.
Headless(i) ==
    /\ load.file[i].kind = "DATA"
    /\ \A j \in 1..(i - 1) : load.file[j].kind # "FLAG"

\* The pass has dealt with line i: it is past it, or it has stopped at it.
Dealt(i) == load.next > i \/ (load.next = i /\ load.pc # "reading")

\* C12: once the reader has dealt with a data line that no %FLAG tag
\* precedes, it has raised at that very line (an IndexError, from
\* self._flags[-1]) and holds no section and no token.
C12_DataBeforeFlagFails ==
    \A i \in 1..Len(load.file) :
        (Headless(i) /\ Dealt(i)) =>
            /\ load.pc = "raised"
            /\ load.next = i
            /\ load.err = IndexError
            /\ DOMAIN load._raw_data = {}
            /\ ~load.title.some

\* The reader has raised at a data line of MaxLine letters that follows the
\* %VERSION tag.
C12_Witness ==
    /\ load.pc = "raised"
    /\ load.next = 2
    /\ load.file[1].kind = "VERSION"
    /\ Headless(2)
    /\ Len(Rstrip(load.file[2].text)) = MaxLine

-----------------------------------------------------------------------------
(* Pointer lookups on short POINTERS sections (C13). *)

\* A name that is not in POINTER_LABEL_LIST.
UnknownLabel == "NATOMS"

PointerLabels == {POINTER_LABEL_LIST[i] : i \in 1..Len(POINTER_LABEL_LIST)}

\* The outcome of _getPointerValue: list.index raises ValueError on a name
\* that is not a label, and the subscript raises IndexError only when the
\* label's own position is past the tokens held.
PointerOutcome(pointerLabel) ==
    IF pointerLabel \notin PointerLabels THEN [out |-> "raised", err |-> ValueError, val |-> 0]
    ELSE IF PointerIndex(pointerLabel) >= Len(raw.POINTERS)
    THEN [out |-> "raised", err |-> IndexError, val |-> 0]
    ELSE [out |-> "returned", err |-> NoErr, val |-> _getPointerValue(pointerLabel)]

\* A call _getPointerValue(pointerLabel).
GetPointerValue(pointerLabel) ==
    LET r == PointerOutcome(pointerLabel)
    IN  /\ last' = [acc |-> "_getPointerValue", out |-> r.out, err |-> r.err,
                    val |-> r.val, arg |-> 0, label |-> pointerLabel]
        /\ UNCHANGED <<raw, cache, residuePointerDict, called, runs, raised,
                       systemVars, readers, load, crd>>

\* The number of POINTERS tokens of a file: none, a few, the 30 the labels
\* name, or the 31 of a file that also has NCOPY.
MaxPointers == 31

\* Files whose POINTERS section holds the first n tokens.
PointerFiles ==
    { [BaseFile EXCEPT !.POINTERS =
          [i \in 1..n |-> IF i <= Len(POINTER_LABEL_LIST)
                          THEN Pointers(MaxAtoms, 0, 1, 0)[i] ELSE 0]] :
        n \in 0..MaxPointers }

InitPointers == InitLoader(PointerFiles) /\ InitSystem
NextPointers == \E pointerLabel \in PointerLabels \cup {UnknownLabel} :
                    GetPointerValue(pointerLabel)
SpecPointers == InitPointers /\ [][NextPointers]_vars

PointerCalled == last.acc = "_getPointerValue"

\* C13: a lookup of a name that is not a label raises, and so does every
\* lookup on a POINTERS section of fewer than 30 tokens.
C13_ShortTableAlwaysFails ==
    (/\ PointerCalled
     /\ \/ last.label \notin PointerLabels
        \/ Len(raw.POINTERS) < Len(POINTER_LABEL_LIST))
        => last.out = "raised"

-----------------------------------------------------------------------------
(* Residue lookups on unchecked RESIDUE_POINTER sections (C14). *)

\* Every RESIDUE_POINTER section of up to MaxAtoms entries, increasing or
\* not, with every NRES pointer of up to MaxAtoms.
ResiduePointerFiles ==
    { [BaseFile EXCEPT !.RESIDUE_POINTER = s,
                       !.RESIDUE_LABEL = [r \in 1..Len(s) |-> ResidueNames[1 + ((r - 1) % 3)]],
                       !.POINTERS[PointerIndex("NRES") + 1] = nres] :
        s \in UNION {[1..n -> 1..MaxAtoms] : n \in 1..MaxAtoms},
        nres \in 1..MaxAtoms }

InitResiduePointers == InitLoader(ResiduePointerFiles) /\ InitSystem
NextResiduePointers ==
    \/ \E iAtom \in Atoms : GetResidueNumber(iAtom)
    \/ \E iAtom \in Atoms : GetResidueLabel(Some(iAtom), None)
SpecResiduePointers == InitResiduePointers /\ [][NextResiduePointers]_vars

StrictlyIncreasing(s) == \A i \in 1..(Len(s) - 1) : s[i] < s[i + 1]

\* C14: a residue lookup by atom on a RESIDUE_POINTER section that is not
\* strictly increasing, or whose length is not the NRES pointer, raises.
C14_UncheckedArrayFails ==
    (/\ last.acc \in {"getResidueNumber", "getResidueLabel"}
     /\ \/ ~StrictlyIncreasing(raw.RESIDUE_POINTER)
        \/ Len(raw.RESIDUE_POINTER) # _getPointerValue("NRES"))
        => last.out = "raised"

-----------------------------------------------------------------------------
(* Constrained bonds and their stretch terms (C15). *)

HBondsShaken == args.shake \in {"h-bonds", "all-bonds", "h-angles"}
OtherBondsShaken == args.shake \in {"all-bonds", "h-angles"}

\* The number of bonds that shake turns into constraints, and of all bonds.
NumShakenBonds ==
    (IF HBondsShaken THEN Len(BondRecords(raw.BONDS_INC_HYDROGEN)) ELSE 0)
      + (IF OtherBondsShaken THEN Len(BondRecords(raw.BONDS_WITHOUT_HYDROGEN)) ELSE 0)
NumBonds ==
    Len(BondRecords(raw.BONDS_INC_HYDROGEN)) + Len(BondRecords(raw.BONDS_WITHOUT_HYDROGEN))

BondForceAdded == "HarmonicBondForce" \in {system.forces[f] : f \in 1..Len(system.forces)}

\* Constraint c of the system has a stretch term on the same atoms with the
\* same length.
HasStretchTerm(c) ==
    \E t \in 1..Len(forces.HarmonicBondForce) :
        SubSeq(forces.HarmonicBondForce[t], 1, 3) = system.constraints[c]

ShakenBondsKeepStretch ==
    /\ Len(system.constraints) >= NumShakenBonds
    /\ \A c \in 1..NumShakenBonds : HasStretchTerm(c)

-----------------------------------------------------------------------------
(* The tokens of a section (C16). *)

\* The lines the pass has finished.
Finished == 1..(load.next - 1)

\* The %FLAG line that line i belongs to (0 if none).
OwnerLine(i) ==
    LET tags == {j \in 1..(i - 1) : load.file[j].kind = "FLAG"}
    IN  IF tags = {} THEN 0 ELSE CHOOSE j \in tags : \A k \in tags : k <= j

\* The data lines whose tokens the section declared by line tag holds.
SectionLines(tag) ==
    {i \in Finished : load.file[i].kind = "DATA" /\ OwnerLine(i) = tag}

\* The field width in force at line i: that of the last %FORMAT line of the
\* same section before it.
WidthAt(i) ==
    LET formats == {j \in OwnerLine(i)..(i - 1) : load.file[j].kind = "FORMAT"}
    IN  load.file[CHOOSE j \in formats : \A k \in formats : k <= j].width

\* The consecutive width-wide pieces of a text, the last one shorter if the
\* text ends inside it.
Chunks(text, width) ==
    [n \in 1..((Len(text) + width - 1) \div width) |->
        SubSeq(text, (n - 1) * width + 1, Min(n * width, Len(text)))]

AllBlank(item) == \A c \in 1..Len(item) : item[c] = Blank

\* The slices of a line that are not empty after trimming.
TrimmedSlices(text, width) ==
    SelectSeq(Chunks(Rstrip(text), width), LAMBDA item : ~AllBlank(item))

\* The slices of a line without its trailing blanks.
StrippedSlices(text, width) == Chunks(Rstrip(text), width)

\* The tokens of the lines S, in file order.
RECURSIVE TokensOf(_, _)
TokensOf(S, trimmed) ==
    IF S = {} THEN <<>>
    ELSE LET i == CHOOSE j \in S : \A k \in S : k <= j
         IN  TokensOf(S \ {i}, trimmed)
               \o (IF trimmed THEN TrimmedSlices(load.file[i].text, WidthAt(i))
                   ELSE StrippedSlices(load.file[i].text, WidthAt(i)))

\* The last %FLAG line finished for each section other than the title.
DeclaringLines ==
    {j \in Finished :
        /\ load.file[j].kind = "FLAG"
        /\ load.file[j].flag # "TITLE"
        /\ \A k \in Finished : (k > j /\ load.file[k].kind = "FLAG")
                                  => load.file[k].flag # load.file[j].flag}

SectionsHold(trimmed) ==
    \A tag \in DeclaringLines :
        load._raw_data[load.file[tag].flag] = TokensOf(SectionLines(tag), trimmed)

\* C16 as stated: every section other than the title holds, in file order,
\* the slices of its lines that are not empty after trimming; a slice of
\* blanks is never a token.
C16_BlankSlicesDropped == SectionsHold(TRUE)

\* C16: every section other than the title holds, in file order, the
\* consecutive slices of its lines with their trailing blanks removed; a
\* slice of blanks that has text after it on the line is a token, and only
\* the blanks at the end of the line are never stored.
C16_StrippedLineSlices == SectionsHold(FALSE)

\* A section read to the end that holds a token of blanks between two
\* tokens of text.
C16_Witness ==
    /\ load.pc = "closed"
    /\ "ATOM_NAME" \in DOMAIN load._raw_data
    /\ \E n \in 2..(Len(load._raw_data.ATOM_NAME) - 1) :
          /\ AllBlank(load._raw_data.ATOM_NAME[n])
          /\ ~AllBlank(load._raw_data.ATOM_NAME[n - 1])
          /\ ~AllBlank(load._raw_data.ATOM_NAME[n + 1])
    /\ Len(load._raw_data.CHARGE) = 2

-----------------------------------------------------------------------------
(* Raw indexes that are not multiples of 3 (C17). *)

\* A record of the sections of acc has an atom index that is not 3 times an
\* atom number.
HasOffsetIndex(acc) ==
    \E r \in 1..Len(RecordsOf(acc)) : \E a \in 1..(WidthOf(acc) - 1) :
        LET x == RecordsOf(acc)[r][a]
        IN  (IF x < 0 THEN 0 - x ELSE x) % 3 # 0

\* C17: the first call of a bond or dihedral accessor on sections in which a
\* raw index is not a multiple of 3 raises instead of truncating it.
C17_OffsetIndexFails ==
    \A acc \in {"getBondsWithH", "getBondsNoH", "getDihedrals"} :
        (FirstCallOf(acc) /\ HasOffsetIndex(acc)) => last.out = "raised"

-----------------------------------------------------------------------------
(* The bond lengths of a constrained angle (C18). *)

\* The bonds that became constraints: the first NumShakenBonds constraints
\* of the system.
BondConstraintSet ==
    {system.constraints[c] : c \in 1..Min(NumShakenBonds, Len(system.constraints))}

\* The constrained lengths of the bonds between two atoms.
BondLengths(iAtom, jAtom) ==
    {c[3] : c \in {b \in BondConstraintSet : {b[1], b[2]} = {iAtom, jAtom}}}

\* The angles of the angle list that shake = 'h-angles' constrains, in list
\* order.
ConstrainedAngles == SelectSeq(cache._angleList.val, AngleConstrained)

AnglesAdded == "HarmonicAngleForce" \in {system.forces[f] : f \in 1..Len(system.forces)}

\* C18: with shake = 'h-angles', the constraint of a constrained angle
\* (i, j, k) whose two bonds are constrained is computed from the constrained
\* length of the bond between i and j and that of the bond between j and k;
\* and the angle loop does not
\* fail for want of a length when both bonds of every constrained angle are
\* constrained.
C18_LengthsOfTheTwoBonds ==
    /\ (args.shake = "h-angles" /\ AnglesAdded) =>
          /\ Len(system.constraints) = NumShakenBonds + Len(ConstrainedAngles)
          /\ \A n \in 1..Len(ConstrainedAngles) :
                LET angle == ConstrainedAngles[n]
                    made == system.constraints[NumShakenBonds + n]
                IN  /\ made[1] = angle[1]
                    /\ made[2] = angle[3]
                    /\ (/\ BondLengths(angle[1], angle[2]) # {}
                        /\ BondLengths(angle[2], angle[3]) # {}) =>
                          /\ made[3].a \in BondLengths(angle[1], angle[2])
                          /\ made[3].b \in BondLengths(angle[2], angle[3])
    /\ (args.shake = "h-angles" /\ pc = "error" /\ error = TypeError
          /\ cache._angleList.set) =>
          \E n \in 1..Len(ConstrainedAngles) :
              LET angle == ConstrainedAngles[n]
              IN  \/ BondLengths(angle[1], angle[2]) = {}
                  \/ BondLengths(angle[2], angle[3]) = {}

-----------------------------------------------------------------------------
(* readAmberCoordinates: one call on a coordinate file.  A file is a
   sequence of lines, a line the sequence of its whitespace-separated
   tokens; "x" is a token float() and int() reject.  asNumpy only converts
   the lists that were read and is left out. *)

MaxTokens == 6
MaxCrdLines == 3

\* int(token) and float(token) succeed on these tokens.
IntOf(token) == CASE token = "1" -> 1 [] token = "2" -> 2 [] OTHER -> 0
IsNumber(token) == token \in {"1", "2"}

\* infile.readline().strip().split(): the tokens of the next line, none at
\* the end of the file.
Readline == IF crd.infile <= Len(crd.file) THEN crd.file[crd.infile] ELSE <<>>
\* The position after readline(): it stays at the end of the file.
AfterReadline == IF crd.infile <= Len(crd.file) THEN crd.infile + 1 ELSE crd.infile

\* The triples the inner loop appends before it leaves the line: all of
\* them, or those before the triple whose pop(0) or float() raises.
TriplesRead(elements) ==
    LET bad == {p \in 1..Len(elements) : ~IsNumber(elements[p])}
        stop == IF bad = {} THEN Len(elements)
                ELSE (CHOOSE p \in bad : \A q \in bad : p <= q) - 1
    IN  [t \in 1..(stop \div 3) |-> SubSeq(elements, 3 * t - 2, 3 * t)]

\* What the inner loop raises on a line, if anything.
TriplesErr(elements) ==
    IF \E p \in 1..Len(elements) : ~IsNumber(elements[p]) THEN ValueError
    ELSE IF Len(elements) % 3 # 0 THEN IndexError
    ELSE NoErr

\* The call before it has read anything.  passes is the parity of the number
\* of passes the loops have made, which tells a pass from the next one.
StartCrd(file, read_box, read_velocities) ==
    [ pc |-> "title", file |-> file, infile |-> 1, err |-> NoErr,
      read_box |-> read_box, read_velocities |-> read_velocities,
      natoms |-> 0, natoms_read |-> 0, coordinates |-> <<>>,
      velocities |-> None, box_vectors |-> None, passes |-> 0 ]

CrdOtherVars == <<loaderVars, systemVars, readers, load>>
CrdFail(e) == [crd EXCEPT !.pc = "raised", !.err = e]

\* title = infile.readline().strip()
CrdReadTitle ==
    /\ crd.pc = "title"
    /\ crd' = [crd EXCEPT !.pc = "natoms", !.infile = AfterReadline]
    /\ UNCHANGED CrdOtherVars

\* natoms = int(infile.readline().strip())
CrdReadNatoms ==
    /\ crd.pc = "natoms"
    /\ crd' = IF Len(Readline) # 1 \/ ~IsNumber(Readline[1]) THEN CrdFail(ValueError)
              ELSE [crd EXCEPT !.pc = "coordinates", !.infile = AfterReadline,
                               !.natoms = IntOf(Readline[1])]
    /\ UNCHANGED CrdOtherVars

\* One pass of the outer loop over the coordinates: a line and its triples.
\* At the end of the file readline() returns '' and the pass reads nothing.
CrdReadCoordinates ==
    /\ crd.pc = "coordinates"
    /\ crd.natoms_read < crd.natoms
    /\ LET elements == Readline
           read == [crd EXCEPT !.infile = AfterReadline, !.passes = 1 - @,
                               !.coordinates = @ \o TriplesRead(elements),
                               !.natoms_read = @ + Len(TriplesRead(elements))]
       IN  crd' = IF TriplesErr(elements) # NoErr
                  THEN [read EXCEPT !.pc = "raised", !.err = TriplesErr(elements)]
                  ELSE read
    /\ UNCHANGED CrdOtherVars

\* The coordinates are read: velocities = None; if (read_velocities): ...
CrdCoordinatesDone ==
    /\ crd.pc = "coordinates"
    /\ crd.natoms_read >= crd.natoms
    /\ crd' = IF crd.read_velocities
              THEN [crd EXCEPT !.pc = "velocities", !.natoms_read = 0,
                               !.velocities = Some(<<>>)]
              ELSE [crd EXCEPT !.pc = "box"]
    /\ UNCHANGED CrdOtherVars

\* One pass of the outer loop over the velocities: natoms_read counts the
\* line, not its triples.
CrdReadVelocities ==
    /\ crd.pc = "velocities"
    /\ crd.natoms_read < crd.natoms
    /\ LET elements == Readline
           read == [crd EXCEPT !.infile = AfterReadline, !.passes = 1 - @,
                               !.velocities = Some(@.v \o TriplesRead(elements))]
       IN  crd' = IF TriplesErr(elements) # NoErr
                  THEN [read EXCEPT !.pc = "raised", !.err = TriplesErr(elements)]
                  ELSE [read EXCEPT !.natoms_read = @ + 1]
    /\ UNCHANGED CrdOtherVars

CrdVelocitiesDone ==
    /\ crd.pc = "velocities"
    /\ crd.natoms_read >= crd.natoms
    /\ crd' = [crd EXCEPT !.pc = "box"]
    /\ UNCHANGED CrdOtherVars

\* box_vectors = None; if (read_box): ...; infile.close(); return
CrdReadBox ==
    /\ crd.pc = "box"
    /\ LET elements == Readline
       IN  crd' = IF ~crd.read_box THEN [crd EXCEPT !.pc = "returned"]
                  ELSE IF \E p \in 1..Len(elements) : ~IsNumber(elements[p])
                  THEN [crd EXCEPT !.pc = "raised", !.err = ValueError,
                                   !.infile = AfterReadline]
                  ELSE IF Len(elements) # 6
                  THEN [crd EXCEPT !.pc = "raised", !.infile = AfterReadline,
                                   !.err = "Don't know what to do with box vectors"]
                  ELSE [crd EXCEPT !.pc = "returned", !.infile = AfterReadline,
                                   !.box_vectors =
                                       Some(<<elements[1], elements[2], elements[3]>>)]
    /\ UNCHANGED CrdOtherVars

\* The lines of the files: up to MaxTokens numbers, an atom count of 2, and
\* a line with a token that is not a number.
CrdLines ==
    {[p \in 1..n |-> "1"] : n \in 0..MaxTokens} \cup {<<"2">>, <<"1", "x", "1">>}

\* Every file of a title and up to MaxCrdLines more lines.
CrdFiles ==
    {<<>>} \cup
    UNION { {<<(<<"1">>)>> \o body : body \in [1..n -> CrdLines]} : n \in 0..MaxCrdLines }

\* The call needs no loader: the loader variables only hold their places.
InitCoordinates ==
    /\ raw = BaseFile
    /\ cache = EmptyCache
    /\ residuePointerDict = Unset
    /\ called = [a \in Callables |-> 0]
    /\ runs = [a \in Callables |-> 0]
    /\ raised = {}
    /\ last = NoCall
    /\ readers = <<>>
    /\ load = NoLoad
    /\ InitSystem
    /\ \E file \in CrdFiles, read_box \in BOOLEAN, read_velocities \in BOOLEAN :
          crd = StartCrd(file, read_box, read_velocities)

NextCoordinates ==
    \/ CrdReadTitle
    \/ CrdReadNatoms
    \/ CrdReadCoordinates
    \/ CrdCoordinatesDone
    \/ CrdReadVelocities
    \/ CrdVelocitiesDone
    \/ CrdReadBox

SpecCoordinates == InitCoordinates /\ [][NextCoordinates]_vars

\* The interpreter keeps running the call: a statement that can run does.
FairCoordinates == SpecCoordinates /\ WF_vars(NextCoordinates)

CrdStopped == crd.pc \in {"returned", "raised"}

\* C19: the call stops, by returning or by raising, on every file, also on
\* one that ends before natoms coordinate triples have been read.
C19_AlwaysStops == <>CrdStopped

====
